---- MODULE Spec2Model ----
(***************************************************************************)
(* Passive Watcher of Prose-Guardian (src/passive-watcher.js): the n-gram  *)
(* frequency table, its scoring, pruning and decay, and its queries.       *)
(*                                                                         *)
(* Texts are sequences of lexical items: a word, a sentence terminator     *)
(* ("." "!" "?") or an HTML tag.  A text is rendered with one space        *)
(* between items, a terminator being attached to the item before it.       *)
(* The sample texts hold no code fence, markdown emphasis, quote or         *)
(* parenthesis, so stripMarkup's other replacements leave them as they are. *)
(* Scores are fixed-point numbers: the value 1.0 is ScoreUnit, so that the *)
(* increments 1.0, 0.2, 0.5 and the decay factor 0.9 are exact.            *)
(* An n-gram key (the tokens joined by ' ') is the sequence of its tokens: *)
(* tokens hold no whitespace, so join(' ') and split(' ') are inverse.     *)
(***************************************************************************)
EXTENDS Integers, Sequences, FiniteSets, TLC

\* ------------------------------------------------------------------ bounds
\* cap of the message counter totalMessagesProcessed
MaxMessages == 4

\* cap of the number of direct calls of pruneOldNgrams between two resets
MaxDirectPrunes == 1

RECURSIVE Pow10(_)
Pow10(k) == IF k = 0 THEN 1 ELSE 10 * Pow10(k - 1)

\* the fixed-point value of 1.0: one decimal digit for the increments and one
\* more for every decay a record can undergo before the two caps are reached
ScoreUnit == 10 * Pow10(MaxMessages + MaxDirectPrunes)

\* ------------------------------------------------------------- vocabulary
\* the members of COMMON_WORDS that the sample texts use ('I' is listed in
\* upper case in the source)
COMMON_WORDS == {"the", "of", "to", "his", "I"}

Terminators == {".", "!", "?"}
Tags == {"<b>"}

\* String.prototype.toLowerCase on the sample vocabulary
toLowerCase(w) ==
    CASE w = "His" -> "his"
      [] w = "The" -> "the"
      [] w = "Heart" -> "heart"
      [] w = "I" -> "i"
      [] OTHER -> w

\* the sample texts handed to analyzeMessage
Texts ==
    { <<>>,
      <<"<b>">>,
      <<"the", "of", "to", ".">>,
      <<"the", "heart", "of", "the", ".">>,
      <<"The", "heart", "of", "the", "!", "<b>", "the", "heart", "of", "the",
        "?", "His", "heart", "pounded", ".", "heart", "of", "the">> }

\* the sample chats handed to analyzeChatHistory
Chats ==
    { << [is_user |-> FALSE, mes |-> <<"His", "heart", "pounded", ".">>],
         [is_user |-> TRUE,  mes |-> <<"the", "heart", "of", "the", ".">>],
         [is_user |-> FALSE, mes |-> <<>>],
         [is_user |-> FALSE, mes |-> <<"His", "heart", "pounded", ".">>] >>,
      << [is_user |-> FALSE, mes |-> <<"the", "heart", "of", "the", ".">>],
         [is_user |-> FALSE, mes |-> <<"The", "heart", "of", "the", "!", "<b>",
                                       "the", "heart", "of", "the", "?",
                                       "His", "heart", "pounded", ".",
                                       "heart", "of", "the">>],
         [is_user |-> FALSE, mes |-> <<"the", "of", "to", ".">>] >> }

\* the word lists handed to addToWhitelist
WhitelistAdditions == { <<"Heart">> }

\* ------------------------------------------------------------------ state
VARIABLES
    settings,                \* this.settings
    ngramFrequencies,        \* this.ngramFrequencies: a Map in insertion order
    slopCandidates,          \* this.slopCandidates
    totalMessagesProcessed,  \* this.totalMessagesProcessed
    enabled,                 \* this.enabled
    whitelist,               \* this.whitelist
    lastCall,                \* the last call: its name, arguments, result and
                             \* the watcher's state when it was made
    observed                 \* per message index since the last reset, the
                             \* n-grams that message's analyzeMessage tracked
                             \* and the score increment of each
VARIABLE directPrunes        \* direct calls of pruneOldNgrams since the last
                             \* reset

\* the Static Fixer (src/static-fixer.js)
VARIABLES
    rules,                   \* this.rules: the rule store, an array
    fixerEnabled,            \* this.enabled
    fixerCall                \* the last call of the fixer: its name, argument,
                             \* result and the rule store when it was made

fixerVars == <<rules, fixerEnabled, fixerCall>>

watcherVars == <<settings, ngramFrequencies, slopCandidates,
                 totalMessagesProcessed, enabled, whitelist, lastCall, observed,
                 directPrunes>>

\* the host extension (src/index.js)
VARIABLES
    chat,                    \* getContext().chat: the messages of the open chat
    isAppReady,              \* isAppReady
    appPhase,                \* how far the APP_READY handler has come
    messageCount,            \* messageCount
    fastModeEnabled,         \* settings.fastModeEnabled
    saving,                  \* the processMessage calls suspended on
                             \* saveChatConditional
    hostSettings,            \* settings.autoMode and the three settings of
                             \* quality mode
    suspended,               \* the processMessage calls suspended on aiRewrite
                             \* or on showDiffPopup
    hostCall                 \* the last event the host handled

hostVars == <<chat, isAppReady, appPhase, messageCount, fastModeEnabled, saving,
              hostSettings, suspended, hostCall>>

\* the watcher worker (src/unnamed/part_000); the watcher it creates is the
\* PassiveWatcher of the variables above
VARIABLES
    watcherInstance,         \* whether watcherInstance holds a watcher (is not
                             \* null)
    requests,                \* the requests posted to the worker, in the order
                             \* of their arrival
    handled,                 \* how many of them self.onmessage has handled
    workerCall               \* the request handled last and the messages the
                             \* handler posted in reply

workerVars == <<watcherInstance, requests, handled, workerCall>>

\* the AI regex generator (src/unnamed/part_002)
VARIABLES
    dynamicRules,            \* this.settings.dynamicRules
    isGenerating,            \* this.isGenerating
    generating,              \* the generateRulesFromPhrases calls suspended
                             \* on callAI
    generatorCall            \* the last call of the generator that returned,
                             \* or the AI call that resolved since

generatorVars == <<dynamicRules, isGenerating, generating, generatorCall>>

vars == <<watcherVars, fixerVars, hostVars, workerVars, generatorVars>>

\* ---------------------------------------------------------------- helpers
RECURSIVE SeqFilter(_, _)
SeqFilter(s, keep) ==
    IF s = <<>> THEN <<>>
    ELSE IF Head(s) \in keep THEN <<Head(s)>> \o SeqFilter(Tail(s), keep)
    ELSE SeqFilter(Tail(s), keep)

Range(s) == { s[i] : i \in DOMAIN s }

\* Map.prototype.has / get: the position of a key in the table, 0 if absent
IndexOf(freq, key) ==
    IF \E i \in DOMAIN freq : freq[i].phrase = key
    THEN CHOOSE i \in DOMAIN freq : freq[i].phrase = key
    ELSE 0

Keys(freq) == { freq[i].phrase : i \in DOMAIN freq }

\* Map.prototype.set: an existing key keeps its position, a new one is appended
MapSet(freq, key, data) ==
    LET i == IndexOf(freq, key)
        rec == [phrase |-> key, count |-> data.count, score |-> data.score,
                lastSeen |-> data.lastSeen]
    IN  IF i = 0 THEN Append(freq, rec) ELSE [freq EXCEPT ![i] = rec]

\* ---------------------------------------------------------- text pipeline
\* stripMarkup: tags are replaced by a space and whitespace is normalised
stripMarkup(text) ==
    IF text = <<>> THEN <<>>
    ELSE SeqFilter(text, Range(text) \ Tags)

\* the matches of /[^.!?]+[.!?]+["]?/g, each as its items without the
\* terminators: a run of items followed by a run of terminators.  Leading
\* terminators and an unterminated tail match nothing.
RECURSIVE MatchSentences(_, _, _, _)
MatchSentences(rest, cur, inTerm, acc) ==
    IF rest = <<>> THEN
        IF inTerm THEN Append(acc, cur) ELSE acc
    ELSE IF Head(rest) \in Terminators THEN
        MatchSentences(Tail(rest), cur, cur # <<>>, acc)
    ELSE IF inTerm THEN
        MatchSentences(Tail(rest), <<Head(rest)>>, FALSE, Append(acc, cur))
    ELSE
        MatchSentences(Tail(rest), Append(cur, Head(rest)), FALSE, acc)

\* cleanText.match(...) || [cleanText], then per sentence the tokens:
\* punctuation removed, lower-cased, split on whitespace
Sentences(cleanText) ==
    LET m == MatchSentences(cleanText, <<>>, FALSE, <<>>)
        s == IF m = <<>>
             THEN << SeqFilter(cleanText, Range(cleanText) \ Terminators) >>
             ELSE m
    IN  [i \in DOMAIN s |-> [j \in DOMAIN s[i] |-> toLowerCase(s[i][j])]]

generateNgrams(words, n) ==
    IF Len(words) < n THEN <<>>
    ELSE [i \in 1..(Len(words) - n + 1) |-> SubSeq(words, i, i + n - 1)]

isPhraseLowQualityLengthOnly(phrase, wl, st) ==
    Len(phrase) < st.ngramMin

isPhraseLowQuality(phrase, wl, st) ==
    LET words == [i \in DOMAIN phrase |-> toLowerCase(phrase[i])]
    IN  \/ Len(words) < st.ngramMin
        \/ \A i \in DOMAIN words : words[i] \in wl

\* the n-grams one analyzeMessage call tracks, in the order of its loops:
\* per sentence, per n from ngramMin to ngramMax, per window, those that are
\* not low quality; each as [ngram, n]
RECURSIVE ConcatAll(_)
ConcatAll(ss) == IF ss = <<>> THEN <<>> ELSE Head(ss) \o ConcatAll(Tail(ss))

SentenceNgrams(words, wl, st) ==
    LET perN(n) ==
            LET g == generateNgrams(words, n)
                all == [i \in DOMAIN g |-> [ngram |-> g[i], n |-> n]]
            IN  SelectSeq(all, LAMBDA o : ~isPhraseLowQuality(o.ngram, wl, st))
        ns == IF st.ngramMax < st.ngramMin THEN <<>>
              ELSE [k \in 1..(st.ngramMax - st.ngramMin + 1) |->
                        perN(st.ngramMin + k - 1)]
    IN  ConcatAll(ns)

TrackedNgrams(text, wl, st) ==
    LET ss == Sentences(stripMarkup(text))
    IN  ConcatAll([i \in DOMAIN ss |-> SentenceNgrams(ss[i], wl, st)])

\* scoreIncrement of one observation (lines 145-154)
scoreIncrementNoLengthBonus(ngram, n, wl, st) ==
    ScoreUnit
    + Cardinality({i \in DOMAIN ngram : ngram[i] \notin wl}) * (ScoreUnit \div 2)

scoreIncrement(ngram, n, wl, st) ==
    ScoreUnit
    + (n - st.ngramMin) * (ScoreUnit \div 5)
    + Cardinality({i \in DOMAIN ngram : ngram[i] \notin wl}) * (ScoreUnit \div 2)

\* one pass of the innermost loop body (lines 138-169) on w = [freq, cand]
trackNgram(w, o, total, wl, st) ==
    LET i == IndexOf(w.freq, o.ngram)
        currentData == IF i = 0
                       THEN [count |-> 0, score |-> 0, lastSeen |-> total]
                       ELSE [count |-> w.freq[i].count,
                             score |-> w.freq[i].score,
                             lastSeen |-> w.freq[i].lastSeen]
        newCount == currentData.count + 1
        newScore == currentData.score + scoreIncrement(o.ngram, o.n, wl, st)
    IN  [freq |-> MapSet(w.freq, o.ngram,
                         [count |-> newCount, score |-> newScore,
                          lastSeen |-> total]),
         cand |-> IF newScore >= st.slopThreshold
                     /\ currentData.score < st.slopThreshold
                  THEN w.cand \cup {o.ngram}
                  ELSE w.cand]

RECURSIVE trackAll(_, _, _, _, _)
trackAll(w, obs, total, wl, st) ==
    IF obs = <<>> THEN w
    ELSE trackAll(trackNgram(w, Head(obs), total, wl, st), Tail(obs),
                  total, wl, st)

\* data.score *= 0.9
DecayByHalf(score) == score \div 2

Decay(score) == (score \div 10) * 9

\* pruneOldNgrams (lines 185-206) on w = [freq, cand] with the counter total
IsStaleInclusive(data, total, st) == total - data.lastSeen >= st.pruningCycle

IsStale(data, total, st) == total - data.lastSeen > st.pruningCycle

pruneOldNgramsKeepCandidates(w, total, st) ==
    LET dead(r) == IsStale(r, total, st) /\ r.score < st.slopThreshold
        kept == SelectSeq(w.freq, LAMBDA r : ~dead(r))
    IN  [freq |-> [i \in DOMAIN kept |->
                     IF IsStale(kept[i], total, st)
                     THEN [kept[i] EXCEPT !.score = Decay(@)]
                     ELSE kept[i]],
         cand |-> w.cand]

pruneOldNgrams(w, total, st) ==
    LET dead(r) == IsStale(r, total, st) /\ r.score < st.slopThreshold
        kept == SelectSeq(w.freq, LAMBDA r : ~dead(r))
    IN  [freq |-> [i \in DOMAIN kept |->
                     IF IsStale(kept[i], total, st)
                     THEN [kept[i] EXCEPT !.score = Decay(@)]
                     ELSE kept[i]],
         cand |-> w.cand \ { w.freq[i].phrase : i \in
                               { j \in DOMAIN w.freq : dead(w.freq[j]) } }]

\* the condition of the periodic pruning (line 177), on the counter after
\* its increment
PruningDueBeforeIncrement(total, st) == (total - 1) % st.pruningCycle = 0

PruningDue(total, st) == total % st.pruningCycle = 0

\* whether analyzeMessage gets past its two early returns (lines 109-112)
IsProcessedAlways(text, en) == TRUE

IsProcessed(text, en) == text # <<>> /\ en /\ stripMarkup(text) # <<>>

\* analyzeMessage (lines 108-180) as a function of the watcher's state
\* w = [freq, cand, total]
analyzeMessageEffectWithoutPruning(w, text, en, wl, st) ==
    IF ~IsProcessed(text, en) THEN w
    ELSE LET t == trackAll([freq |-> w.freq, cand |-> w.cand],
                           TrackedNgrams(text, wl, st), w.total, wl, st)
         IN  [freq |-> t.freq, cand |-> t.cand, total |-> w.total + 1]

analyzeMessageEffect(w, text, en, wl, st) ==
    IF ~IsProcessed(text, en) THEN w
    ELSE LET t == trackAll([freq |-> w.freq, cand |-> w.cand],
                           TrackedNgrams(text, wl, st), w.total, wl, st)
             total == w.total + 1
             p == IF PruningDue(total, st)
                  THEN pruneOldNgrams(t, total, st) ELSE t
         IN  [freq |-> p.freq, cand |-> p.cand, total |-> total]

\* ---------------------------------------------------------------- queries
\* Array.prototype.sort((a, b) => b.score - a.score): stable, descending
RECURSIVE InsertByScore(_, _)
InsertByScore(sorted, x) ==
    IF sorted = <<>> THEN <<x>>
    ELSE IF Head(sorted).score >= x.score
         THEN <<Head(sorted)>> \o InsertByScore(Tail(sorted), x)
         ELSE <<x>> \o sorted

RECURSIVE SortByScoreFrom(_, _)
SortByScoreFrom(sorted, s) ==
    IF s = <<>> THEN sorted
    ELSE SortByScoreFrom(InsertByScore(sorted, Head(s)), Tail(s))

SortByScore(s) == SortByScoreFrom(<<>>, s)

\* the default value of getOverusedPhrases's parameter (line 213)
DefaultMinScore == 5 * ScoreUnit

\* a call argument that may be left out
Undefined == [given |-> FALSE, value |-> 0]
Given(v) == [given |-> TRUE, value |-> v]

getOverusedPhrasesUnsorted(freq, minScoreArg) ==
    LET minScore == IF minScoreArg.given THEN minScoreArg.value
                    ELSE DefaultMinScore
        hits == SelectSeq(freq, LAMBDA r : r.score >= minScore)
    IN  [i \in DOMAIN hits |-> [phrase |-> hits[i].phrase,
                                 score |-> hits[i].score,
                                 count |-> hits[i].count]]

getOverusedPhrases(freq, minScoreArg) ==
    LET minScore == IF minScoreArg.given THEN minScoreArg.value
                    ELSE DefaultMinScore
        hits == SelectSeq(freq, LAMBDA r : r.score >= minScore)
    IN  SortByScore([i \in DOMAIN hits |-> [phrase |-> hits[i].phrase,
                                             score |-> hits[i].score,
                                             count |-> hits[i].count]])

\* the number of entries getStats keeps of the top phrases (line 241)
TopPhrasesLimit == 10

getStats(freq, cand, total) ==
    LET top == getOverusedPhrases(freq, Undefined)
    IN  [totalPhrases |-> Len(freq),
         slopCandidates |-> Cardinality(cand),
         messagesProcessed |-> total,
         topPhrases |-> SubSeq(top, 1, IF Len(top) < TopPhrasesLimit
                                        THEN Len(top) ELSE TopPhrasesLimit)]

\* analyzeChatHistory (lines 276-293) as a function of the chat
aiMessages(messages) ==
    SelectSeq(messages, LAMBDA msg : ~msg.is_user /\ msg.mes # <<>>)

\* Array.prototype.slice(-k): the last k elements; slice(-0) is slice(0)
SliceLast(s, k) ==
    IF k <= 0 \/ k >= Len(s) THEN s ELSE SubSeq(s, Len(s) - k + 1, Len(s))

recentMessages(messages, st) ==
    SliceLast(aiMessages(messages), st.messagesToAnalyze)

RECURSIVE analyzeAll(_, _, _, _, _)
analyzeAll(w, msgs, en, wl, st) ==
    IF msgs = <<>> THEN w
    ELSE analyzeAll(analyzeMessageEffect(w, Head(msgs).mes, en, wl, st),
                    Tail(msgs), en, wl, st)

\* the log entry of one processed message: the n-grams it tracked, each with
\* the score increment it received
LogEntry(text, wl, st) ==
    LET t == TrackedNgrams(text, wl, st)
    IN  [i \in DOMAIN t |->
            [ngram |-> t[i].ngram, n |-> t[i].n,
             inc |-> scoreIncrement(t[i].ngram, t[i].n, wl, st)]]

\* the entries analyzeChatHistory's analyzeMessage calls append to the log
RECURSIVE observedAll(_, _, _, _, _)
observedAll(log, msgs, en, wl, st) ==
    IF msgs = <<>> THEN log
    ELSE observedAll(IF IsProcessed(Head(msgs).mes, en)
                     THEN Append(log, LogEntry(Head(msgs).mes, wl, st))
                     ELSE log,
                     Tail(msgs), en, wl, st)

\* ------------------------------------------------------------------- calls
Watcher == [freq |-> ngramFrequencies, cand |-> slopCandidates,
            total |-> totalMessagesProcessed]

NoStats == [totalPhrases |-> 0, slopCandidates |-> 0, messagesProcessed |-> 0,
            topPhrases |-> <<>>]

Call(op) == [op |-> op, text |-> <<>>, minScore |-> Undefined,
             phrases |-> <<>>, stats |-> NoStats, analyzed |-> 0,
             messages |-> <<>>, passed |-> <<>>,
             before |-> Watcher]

\* the values the constructor's options take (lines 22-30)
SettingsChoices ==
    [ngramMin : {3}, ngramMax : {4},
     slopThreshold : {3 * ScoreUnit, 5 * ScoreUnit},
     pruningCycle : {1, 2}, patternMinCommon : {2},
     messagesToAnalyze : {2}]

\* the minimum scores handed to getOverusedPhrases
MinScoreArgs == {Undefined, Given(2 * ScoreUnit)}

\* a message posted to the worker: e.data = { type, data }, data being
\* undefined when hasData is FALSE
Request(type, hasData, text, messages, minScore, options) ==
    [type |-> type, hasData |-> hasData, text |-> text, messages |-> messages,
     minScore |-> minScore, settings |-> options]

\* no request handled yet
NoRequest == [type |-> "none", hasData |-> FALSE]

\* no call of the generator has returned yet
NoGeneratorCall ==
    [op |-> "constructor", returned |-> 0, failed |-> FALSE, busy |-> FALSE,
     aiCalls |-> 0, added |-> 0, changed |-> FALSE,
     json |-> [valid |-> FALSE, kind |-> "none", entries |-> <<>>]]

\* context.chat[messageId] of an id outside the chat
\* the stored settings of the extension (index.js, lines 24-26 and 76):
\* quality mode is switched to manual-only, changes are applied without review
StoredSettings ==
    [autoMode |-> TRUE, qualityModeEnabled |-> TRUE,
     qualityModeManualOnly |-> TRUE, qualityModeInterval |-> 5]

NoMessage == [is_user |-> FALSE, mes |-> <<>>, flags |-> {}, defined |-> FALSE]

Init ==
    /\ settings \in SettingsChoices
    /\ ngramFrequencies = <<>>
    /\ slopCandidates = {}
    /\ totalMessagesProcessed = 0
    /\ enabled = TRUE
    /\ whitelist = COMMON_WORDS
    /\ lastCall = [op |-> "constructor", text |-> <<>>, minScore |-> Undefined,
                   phrases |-> <<>>, stats |-> NoStats, analyzed |-> 0,
                   messages |-> <<>>, passed |-> <<>>,
                   before |-> [freq |-> <<>>, cand |-> {}, total |-> 0]]
    /\ observed = <<>>
    /\ directPrunes = 0
    /\ rules = <<>>
    /\ fixerEnabled = TRUE
    /\ fixerCall = [op |-> "constructor", text |-> <<>>, result |-> <<>>,
                    source |-> "none", rules |-> <<>>, enabled |-> TRUE]
    /\ chat = <<>>
    /\ isAppReady = FALSE
    /\ appPhase = "start"
    /\ messageCount = 0
    /\ fastModeEnabled = TRUE
    /\ saving = {}
    /\ hostSettings = StoredSettings
    /\ suspended = {}
    /\ hostCall = [op |-> "load", messageId |-> 0, message |-> NoMessage,
                   observed |-> FALSE,
                   before |-> [freq |-> <<>>, cand |-> {}, total |-> 0]]
    /\ watcherInstance = FALSE
    /\ requests = <<>>
    /\ handled = 0
    /\ workerCall = [request |-> NoRequest, replies |-> <<>>]
    /\ dynamicRules = Undefined
    /\ isGenerating = FALSE
    /\ generating = <<>>
    /\ generatorCall = NoGeneratorCall

analyzeMessage(text) ==
    /\ totalMessagesProcessed < MaxMessages
    /\ LET w == analyzeMessageEffect(Watcher, text, enabled, whitelist, settings)
       IN  /\ ngramFrequencies' = w.freq
           /\ slopCandidates' = w.cand
           /\ totalMessagesProcessed' = w.total
    /\ observed' = IF IsProcessed(text, enabled)
                   THEN Append(observed, LogEntry(text, whitelist, settings))
                   ELSE observed
    /\ lastCall' = [Call("analyzeMessage") EXCEPT !.text = text]
    /\ UNCHANGED <<settings, enabled, whitelist, directPrunes>>
    /\ UNCHANGED <<fixerVars, hostVars, workerVars, generatorVars>>

pruneOldNgramsCall ==
    /\ directPrunes < MaxDirectPrunes
    /\ directPrunes' = directPrunes + 1
    /\ LET w == pruneOldNgrams([freq |-> ngramFrequencies,
                                cand |-> slopCandidates],
                               totalMessagesProcessed, settings)
       IN  /\ ngramFrequencies' = w.freq
           /\ slopCandidates' = w.cand
    /\ lastCall' = Call("pruneOldNgrams")
    /\ UNCHANGED <<settings, totalMessagesProcessed, enabled, whitelist, observed>>
    /\ UNCHANGED <<fixerVars, hostVars, workerVars, generatorVars>>

getOverusedPhrasesCall(minScoreArg) ==
    /\ lastCall' = [Call("getOverusedPhrases") EXCEPT
                      !.minScore = minScoreArg,
                      !.phrases = getOverusedPhrases(ngramFrequencies, minScoreArg)]
    /\ UNCHANGED <<settings, ngramFrequencies, slopCandidates,
                   totalMessagesProcessed, enabled, whitelist, observed, directPrunes>>
    /\ UNCHANGED <<fixerVars, hostVars, workerVars, generatorVars>>

getStatsCall ==
    /\ lastCall' = [Call("getStats") EXCEPT
                      !.stats = getStats(ngramFrequencies, slopCandidates,
                                         totalMessagesProcessed)]
    /\ UNCHANGED <<settings, ngramFrequencies, slopCandidates,
                   totalMessagesProcessed, enabled, whitelist, observed, directPrunes>>
    /\ UNCHANGED <<fixerVars, hostVars, workerVars, generatorVars>>

resetKeepCounter ==
    /\ ngramFrequencies' = <<>>
    /\ slopCandidates' = {}
    /\ totalMessagesProcessed' = totalMessagesProcessed
    /\ observed' = <<>>
    /\ directPrunes' = 0
    /\ lastCall' = Call("reset")
    /\ UNCHANGED <<settings, enabled, whitelist>>
    /\ UNCHANGED <<fixerVars, hostVars, workerVars, generatorVars>>

reset ==
    /\ ngramFrequencies' = <<>>
    /\ slopCandidates' = {}
    /\ totalMessagesProcessed' = 0
    /\ observed' = <<>>
    /\ directPrunes' = 0
    /\ lastCall' = Call("reset")
    /\ UNCHANGED <<settings, enabled, whitelist>>
    /\ UNCHANGED <<fixerVars, hostVars, workerVars, generatorVars>>

addToWhitelist(words) ==
    /\ \E i \in DOMAIN words : toLowerCase(words[i]) \notin whitelist
    /\ whitelist' = whitelist \cup { toLowerCase(words[i]) : i \in DOMAIN words }
    /\ lastCall' = Call("addToWhitelist")
    /\ UNCHANGED <<settings, ngramFrequencies, slopCandidates,
                   totalMessagesProcessed, enabled, observed, directPrunes>>
    /\ UNCHANGED <<fixerVars, hostVars, workerVars, generatorVars>>

\* applySettings: PassiveWatcher.enabled = settings.passiveWatcherEnabled
setEnabled(b) ==
    /\ b # enabled
    /\ enabled' = b
    /\ lastCall' = Call("setEnabled")
    /\ UNCHANGED <<settings, ngramFrequencies, slopCandidates,
                   totalMessagesProcessed, whitelist, observed, directPrunes>>
    /\ UNCHANGED <<fixerVars, hostVars, workerVars, generatorVars>>

analyzeChatHistory(messages) ==
    LET recent == recentMessages(messages, settings)
        w == analyzeAll([freq |-> <<>>, cand |-> {}, total |-> 0], recent,
                        enabled, whitelist, settings)
    IN  /\ ngramFrequencies' = w.freq
        /\ slopCandidates' = w.cand
        /\ totalMessagesProcessed' = w.total
        /\ observed' = observedAll(<<>>, recent, enabled, whitelist, settings)
        /\ directPrunes' = 0
        /\ lastCall' = [Call("analyzeChatHistory") EXCEPT
                          !.messages = messages,
                          !.passed = recent,
                          !.analyzed = Len(recent),
                          !.phrases = getOverusedPhrases(w.freq, Undefined),
                          !.stats = getStats(w.freq, w.cand, w.total)]
        /\ UNCHANGED <<settings, enabled, whitelist>>
        /\ UNCHANGED <<fixerVars, hostVars, workerVars, generatorVars>>

Next ==
    \/ \E text \in Texts : analyzeMessage(text)
    \/ \E minScoreArg \in MinScoreArgs : getOverusedPhrasesCall(minScoreArg)
    \/ getStatsCall
    \/ reset
    \/ \E words \in WhitelistAdditions : addToWhitelist(words)
    \/ \E b \in BOOLEAN : setEnabled(b)
    \/ \E messages \in Chats : analyzeChatHistory(messages)

Spec == Init /\ [][Next]_vars

\* the calls that change the table, together with direct calls of
\* pruneOldNgrams
NextDirect ==
    \/ \E text \in Texts : analyzeMessage(text)
    \/ \E messages \in Chats : analyzeChatHistory(messages)
    \/ pruneOldNgramsCall
    \/ reset
    \/ \E words \in WhitelistAdditions : addToWhitelist(words)

SpecDirect == Init /\ [][NextDirect]_vars

\* the window sizes handed to setAnalysisWindow
WindowSizes == {0, 1, 2}

\* setAnalysisWindow (lines 266-269)
setAnalysisWindow(windowSize) ==
    /\ windowSize # settings.messagesToAnalyze
    /\ settings' = [settings EXCEPT !.messagesToAnalyze = windowSize]
    /\ lastCall' = Call("setAnalysisWindow")
    /\ UNCHANGED <<ngramFrequencies, slopCandidates, totalMessagesProcessed,
                   enabled, whitelist, observed, directPrunes>>
    /\ UNCHANGED <<fixerVars, hostVars, workerVars, generatorVars>>

\* the batch analysis under a changing analysis window
NextWindow ==
    \/ \E text \in Texts : analyzeMessage(text)
    \/ \E messages \in Chats : analyzeChatHistory(messages)
    \/ \E windowSize \in WindowSizes : setAnalysisWindow(windowSize)
    \/ \E b \in BOOLEAN : setEnabled(b)

SpecWindow == Init /\ [][NextWindow]_vars

\* the scores stay exact: every decay to come divides a multiple of ten
ScoresExact ==
    \A i \in DOMAIN ngramFrequencies :
        /\ ngramFrequencies[i].score > 0
        /\ (ngramFrequencies[i].score
              % Pow10(MaxMessages - totalMessagesProcessed
                      + MaxDirectPrunes - directPrunes)) = 0

\* ------------------------------------------------------------ Static Fixer
\* The texts, patterns and replacement strings of the Static Fixer are
\* strings: sequences of one-character strings.
LowerChars == <<"a", "b", "c", "d", "e", "f", "g", "h", "i", "j", "k", "l", "m", "n", "o", "p", "q", "r", "s", "t", "u", "v", "w", "x", "y", "z">>
UpperChars == <<"A", "B", "C", "D", "E", "F", "G", "H", "I", "J", "K", "L", "M", "N", "O", "P", "Q", "R", "S", "T", "U", "V", "W", "X", "Y", "Z">>
DigitChars == <<"0", "1", "2", "3", "4", "5", "6", "7", "8", "9">>

\* the class \s on the sample texts
Whitespace == {" ", "\n"}

\* 1-based index of c in the string s, 0 if it does not occur
CharIndex(s, c) ==
    IF \E i \in DOMAIN s : s[i] = c
    THEN CHOOSE i \in DOMAIN s : s[i] = c
    ELSE 0

\* the class [a-z]
IsLower(c) == CharIndex(LowerChars, c) # 0

\* letter.toUpperCase()
upperChar(c) == IF IsLower(c) THEN UpperChars[CharIndex(LowerChars, c)] ELSE c

\* case folding of the flag 'i'
lowerChar(c) ==
    IF CharIndex(UpperChars, c) # 0 THEN LowerChars[CharIndex(UpperChars, c)]
    ELSE c

\* the class \d and parseInt of one digit
IsDigit(c) == CharIndex(DigitChars, c) # 0
parseInt(c) == CharIndex(DigitChars, c) - 1

\* String(k) of a number k >= 0
RECURSIVE NumberToString(_)
NumberToString(k) ==
    IF k < 10 THEN <<DigitChars[k + 1]>>
    ELSE Append(NumberToString(k \div 10), DigitChars[(k % 10) + 1])

\* s.startsWith(sub, pos), pos being 1-based
StartsWithAt(s, pos, sub) ==
    /\ pos >= 1
    /\ pos + Len(sub) - 1 <= Len(s)
    /\ \A k \in DOMAIN sub : s[pos + k - 1] = sub[k]

\* s.indexOf(sub, from) as a 1-based position, 0 if there is none
FindFrom(s, from, sub) ==
    LET hits == { p \in from..(Len(s) - Len(sub) + 1) : StartsWithAt(s, p, sub) }
    IN  IF hits = {} THEN 0 ELSE CHOOSE p \in hits : \A q \in hits : p <= q

\* new RegExp(source, 'gi') on the pattern sources of the sample rules:
\* literal characters, a group "(...)" of literal characters, and "?" after
\* a character or a group.  The compiled pattern is the sequence of its parts;
\* compiling throws a SyntaxError on an unterminated group, an unmatched ")"
\* and a "?" with nothing to repeat.
SyntaxError == [ok |-> FALSE, parts |-> <<>>]

RECURSIVE CompileFrom(_, _, _)
CompileFrom(source, i, parts) ==
    IF i > Len(source) THEN [ok |-> TRUE, parts |-> parts]
    ELSE LET c == source[i]
         IN  CASE c = ")" -> SyntaxError
               [] c = "?" ->
                    IF parts = <<>> \/ parts[Len(parts)].optional
                    THEN SyntaxError
                    ELSE CompileFrom(source, i + 1,
                                     [parts EXCEPT ![Len(parts)].optional = TRUE])
               [] c = "(" ->
                    LET close == FindFrom(source, i + 1, <<")">>)
                    IN  IF close = 0
                           \/ FindFrom(SubSeq(source, i + 1, close - 1), 1,
                                       <<"(">>) # 0
                        THEN SyntaxError
                        ELSE CompileFrom(source, close + 1,
                                 Append(parts,
                                        [lit |-> SubSeq(source, i + 1, close - 1),
                                         group |-> TRUE, optional |-> FALSE]))
               [] OTHER ->
                    CompileFrom(source, i + 1,
                                Append(parts, [lit |-> <<c>>, group |-> FALSE,
                                               optional |-> FALSE]))

RegExp(source) == CompileFrom(source, 1, <<>>)

\* a capture group's value: undefined when the group took no part in the match
NotCaptured == [def |-> FALSE, val |-> <<>>]
Captured(s) == [def |-> TRUE, val |-> s]

NoMatch == [ok |-> FALSE, end |-> 0, caps |-> <<>>]

\* the literal lit matches text at pos, letter case ignored
MatchLiteral(text, pos, lit) ==
    /\ pos + Len(lit) - 1 <= Len(text)
    /\ \A k \in DOMAIN lit : lowerChar(text[pos + k - 1]) = lowerChar(lit[k])

\* the match of the parts at pos: an optional part is tried first with and
\* then without its text (greedy, with backtracking); end is the position
\* after the match
RECURSIVE MatchParts(_, _, _, _)
MatchParts(text, pos, parts, caps) ==
    IF parts = <<>> THEN [ok |-> TRUE, end |-> pos, caps |-> caps]
    ELSE LET p == Head(parts)
             taken ==
                 IF MatchLiteral(text, pos, p.lit)
                 THEN MatchParts(text, pos + Len(p.lit), Tail(parts),
                          IF p.group
                          THEN Append(caps,
                                  Captured(SubSeq(text, pos, pos + Len(p.lit) - 1)))
                          ELSE caps)
                 ELSE NoMatch
             skipped ==
                 MatchParts(text, pos, Tail(parts),
                            IF p.group THEN Append(caps, NotCaptured) ELSE caps)
         IN  IF taken.ok THEN taken
             ELSE IF p.optional THEN skipped
             ELSE NoMatch

MatchAt(text, pos, regex) == MatchParts(text, pos, regex.parts, <<>>)

\* the arguments (...args) of the replace callback: the capture groups, then
\* the offset of the match and the string searched
CallbackArgs(m, pos, text) ==
    [i \in DOMAIN m.caps |->
        [kind |-> "capture", def |-> m.caps[i].def, val |-> m.caps[i].val,
         n |-> 0]]
    \o << [kind |-> "offset", def |-> TRUE, val |-> <<>>, n |-> pos - 1],
          [kind |-> "string", def |-> TRUE, val |-> text, n |-> 0] >>

\* args[index] || '' as the text String.replace splices in, index 0-based
ArgOrEmpty(args, index) ==
    IF index < 0 \/ index >= Len(args) THEN <<>>
    ELSE LET a == args[index + 1]
         IN  CASE a.kind = "capture" -> IF a.def THEN a.val ELSE <<>>
               [] a.kind = "offset" -> IF a.n = 0 THEN <<>> ELSE NumberToString(a.n)
               [] OTHER -> a.val

\* chosenOption.replace(/\$(\d)/g, (_, groupIndex) => args[groupIndex - 1] || '')
RECURSIVE SubstituteFrom(_, _, _)
SubstituteFrom(option, i, args) ==
    IF i > Len(option) THEN <<>>
    ELSE IF option[i] = "$" /\ i < Len(option) /\ IsDigit(option[i + 1])
         THEN ArgOrEmpty(args, parseInt(option[i + 1]) - 1)
                \o SubstituteFrom(option, i + 2, args)
         ELSE <<option[i]>> \o SubstituteFrom(option, i + 1, args)

SubstituteReferences(option, args) == SubstituteFrom(option, 1, args)

\* String.prototype.trim
RECURSIVE trimStart(_)
trimStart(s) ==
    IF s # <<>> /\ Head(s) \in Whitespace THEN trimStart(Tail(s)) ELSE s

RECURSIVE trimEnd(_)
trimEnd(s) ==
    IF s # <<>> /\ s[Len(s)] \in Whitespace
    THEN trimEnd(SubSeq(s, 1, Len(s) - 1))
    ELSE s

trim(s) == trimEnd(trimStart(s))

\* String.prototype.split(',')
RECURSIVE split(_)
split(s) ==
    LET comma == FindFrom(s, 1, <<",">>)
    IN  IF comma = 0 THEN <<s>>
        ELSE <<SubSeq(s, 1, comma - 1)>> \o split(SubSeq(s, comma + 1, Len(s)))

RandomMarker == <<"{", "{", "r", "a", "n", "d", "o", "m", ":">>

\* replaceString.match(/\{\{random:([\s\S]+?)\}\}/): the shortest text of at
\* least one character between the first marker and a following "}}"
NoOptions == [found |-> FALSE, list |-> <<>>]

optionsMatch(replaceString) ==
    LET start == FindFrom(replaceString, 1, RandomMarker)
        from == start + Len(RandomMarker)
        close == IF start = 0 THEN 0
                 ELSE FindFrom(replaceString, from + 1, <<"}", "}">>)
    IN  IF close = 0 THEN NoOptions
        ELSE [found |-> TRUE, list |-> SubSeq(replaceString, from, close - 1)]

\* the replacement patterns of String.prototype.replace with a string as
\* replacement: $$, $&, $`, $' and $n for a group n of the pattern
RECURSIVE ExpandFrom(_, _, _, _, _)
ExpandFrom(replacement, i, m, pos, text) ==
    IF i > Len(replacement) THEN <<>>
    ELSE IF replacement[i] = "$" /\ i < Len(replacement)
         THEN LET c == replacement[i + 1]
                  rest == ExpandFrom(replacement, i + 2, m, pos, text)
              IN  CASE c = "$" -> <<"$">> \o rest
                    [] c = "&" -> SubSeq(text, pos, m.end - 1) \o rest
                    [] c = "`" -> SubSeq(text, 1, pos - 1) \o rest
                    [] c = "'" -> SubSeq(text, m.end, Len(text)) \o rest
                    [] IsDigit(c) /\ parseInt(c) >= 1
                                  /\ parseInt(c) <= Len(m.caps) ->
                         (IF m.caps[parseInt(c)].def
                          THEN m.caps[parseInt(c)].val ELSE <<>>) \o rest
                    [] OTHER ->
                         <<"$">> \o ExpandFrom(replacement, i + 1, m, pos, text)
         ELSE <<replacement[i]>> \o ExpandFrom(replacement, i + 1, m, pos, text)

\* what a rule puts in the place of a match: a literal replacement string,
\* or the alternatives of a random list
LiteralReplacement(replaceString) ==
    [random |-> FALSE, options |-> <<>>, literal |-> replaceString]
RandomReplacement(options) ==
    [random |-> TRUE, options |-> options, literal |-> <<>>]

\* the texts one match can be replaced by: with a random list, the callback
\* draws options[Math.floor(Math.random() * options.length)], any of them
Replacements(m, pos, text, repl) ==
    IF repl.random
    THEN { SubstituteReferences(trim(repl.options[k]), CallbackArgs(m, pos, text)) :
               k \in DOMAIN repl.options }
    ELSE { ExpandFrom(repl.literal, 1, m, pos, text) }

\* processedText.replace(regex, ...) with the flag 'g': the matches are found
\* from left to right, each search starting where the match before it ended
\* (one character further after an empty match); the result is the set of
\* texts the calls of Math.random can produce
RECURSIVE ReplaceFrom(_, _, _, _)
ReplaceFrom(text, pos, regex, repl) ==
    IF pos > Len(text) + 1 THEN { <<>> }
    ELSE LET m == MatchAt(text, pos, regex)
             here == IF pos <= Len(text) THEN <<text[pos]>> ELSE <<>>
             skip == { here \o r : r \in ReplaceFrom(text, pos + 1, regex, repl) }
         IN  IF m.ok
             THEN LET rest == IF m.end > pos
                              THEN ReplaceFrom(text, m.end, regex, repl)
                              ELSE skip
                  IN  { a \o r : a \in Replacements(m, pos, text, repl), r \in rest }
             ELSE skip

ReplaceAll(text, regex, repl) == ReplaceFrom(text, 1, regex, repl)

\* the body of the forEach callback for one rule (lines 48-76): a pattern
\* that does not compile throws inside the try and the rule changes nothing;
\* a replaceString with the marker is used only when optionsMatch succeeds
applyRule(text, rule) ==
    LET regex == RegExp(rule.findRegex)
        options == optionsMatch(rule.replaceString)
    IN  IF ~regex.ok THEN { text }
        ELSE IF FindFrom(rule.replaceString, 1, RandomMarker) # 0
        THEN IF options.found
             THEN ReplaceAll(text, regex, RandomReplacement(split(options.list)))
             ELSE { text }
        ELSE ReplaceAll(text, regex, LiteralReplacement(rule.replaceString))

\* enabledRules.forEach: each rule works on the text the rules before it left
RECURSIVE applyRules(_, _)
applyRules(texts, rs) ==
    IF rs = <<>> THEN texts
    ELSE applyRules(UNION { applyRule(t, Head(rs)) : t \in texts }, Tail(rs))

\* this.rules.filter(rule => !rule.disabled && rule.isStatic)
enabledRules(rs) == SelectSeq(rs, LAMBDA rule : ~rule.disabled /\ rule.isStatic)

\* applyReplacements (lines 42-79): the set of texts it can return
applyReplacementsAbortOnError(text, rs, en) ==
    LET er == enabledRules(rs)
        bad == { i \in DOMAIN er : ~RegExp(er[i].findRegex).ok }
        last == IF bad = {} THEN Len(er)
                ELSE (CHOOSE i \in bad : \A j \in bad : i <= j) - 1
    IN  IF text = <<>> \/ ~en THEN { text }
        ELSE applyRules({ text }, SubSeq(er, 1, last))

applyReplacements(text, rs, en) ==
    IF text = <<>> \/ ~en THEN { text }
    ELSE applyRules({ text }, enabledRules(rs))

\* the position after the whitespace that starts at pos
RECURSIVE SkipWhitespace(_, _)
SkipWhitespace(text, pos) ==
    IF pos <= Len(text) /\ text[pos] \in Whitespace
    THEN SkipWhitespace(text, pos + 1)
    ELSE pos

\* the successive iterations of the group (\s*<[^>]*>)* from pos, each with
\* the position it starts at and the position after it
RECURSIVE TagIterations(_, _)
TagIterations(text, pos) ==
    LET open == SkipWhitespace(text, pos)
        close == IF open <= Len(text) /\ text[open] = "<"
                 THEN FindFrom(text, open + 1, <<">">>)
                 ELSE 0
    IN  IF close = 0 THEN <<>>
        ELSE <<[from |-> pos, end |-> close + 1]>> \o TagIterations(text, close + 1)

\* the position after k iterations that start at pos, and the text the group
\* captured: that of its last iteration, undefined (|| '') for none
AfterIterations(iters, pos, k) == IF k = 0 THEN pos ELSE iters[k].end
LastIteration(text, iters, k) ==
    IF k = 0 THEN <<>> ELSE SubSeq(text, iters[k].from, iters[k].end - 1)

\* the largest member of a non-empty set of numbers: the quantifier * is
\* greedy and gives iterations back one at a time
Largest(ks) == CHOOSE k \in ks : \A j \in ks : j <= k

\* text.replace(/^(\s*<[^>]*>)*([a-z])/s, ...) (lines 93-95)
capitalizeFirst(text) ==
    LET iters == TagIterations(text, 1)
        ks == { k \in 0..Len(iters) :
                  LET q == AfterIterations(iters, 1, k)
                  IN  q <= Len(text) /\ IsLower(text[q]) }
    IN  IF ks = {} THEN text
        ELSE LET k == Largest(ks)
                 q == AfterIterations(iters, 1, k)
             IN  LastIteration(text, iters, k) \o <<upperChar(text[q])>>
                   \o SubSeq(text, q + 1, Len(text))

\* the match of /([.!?])(\s*<[^>]*>)*\s+([a-z])/ at pos
SentenceMatch(text, pos) ==
    LET iters == TagIterations(text, pos + 1)
        ks == { k \in 0..Len(iters) :
                  LET q == AfterIterations(iters, pos + 1, k)
                      e == SkipWhitespace(text, q)
                  IN  e > q /\ e <= Len(text) /\ IsLower(text[e]) }
    IN  IF text[pos] \notin {".", "!", "?"} \/ ks = {}
        THEN [ok |-> FALSE, end |-> 0, tags |-> <<>>, letter |-> ""]
        ELSE LET k == Largest(ks)
                 e == SkipWhitespace(text, AfterIterations(iters, pos + 1, k))
             IN  [ok |-> TRUE, end |-> e + 1,
                  tags |-> LastIteration(text, iters, k), letter |-> text[e]]

\* text.replace(/([.!?])(\s*<[^>]*>)*\s+([a-z])/gs, ...) (lines 98-100)
RECURSIVE capitalizeFrom(_, _)
capitalizeFrom(text, pos) ==
    IF pos > Len(text) THEN <<>>
    ELSE LET m == SentenceMatch(text, pos)
         IN  IF m.ok
             THEN <<text[pos]>> \o m.tags \o <<" ", upperChar(m.letter)>>
                    \o capitalizeFrom(text, m.end)
             ELSE <<text[pos]>> \o capitalizeFrom(text, pos + 1)

\* fixCapitalization (lines 87-103)
fixCapitalization(text) ==
    IF text = <<>> THEN text
    ELSE capitalizeFrom(capitalizeFirst(text), 1)

\* process (lines 110-114): the set of texts it can return
process(text, rs, en) ==
    { fixCapitalization(t) : t \in applyReplacements(text, rs, en) }

\* a rule object of the rule store; a rule that carries no isStatic property
\* has isStatic = FALSE (undefined is falsy)
Rule(id, findRegex, replaceString, disabled, isStatic) ==
    [id |-> id, findRegex |-> findRegex, replaceString |-> replaceString,
     disabled |-> disabled, isStatic |-> isStatic]

\* the sample rules
\*   "(his) heart( pounded)?" -> "{{random:$1 pulse quickened, $1 chest tightened}}"
HeartRule ==
    Rule("STATIC_001", <<"(", "h", "i", "s", ")", " ", "h", "e", "a", "r", "t", "(", " ", "p", "o", "u", "n", "d", "e", "d", ")", "?">>,
         <<"{", "{", "r", "a", "n", "d", "o", "m", ":", "$", "1", " ", "p", "u", "l", "s", "e", " ", "q", "u", "i", "c", "k", "e", "n", "e", "d", ",", " ", "$", "1", " ", "c", "h", "e", "s", "t", " ", "t", "i", "g", "h", "t", "e", "n", "e", "d", "}", "}">>, FALSE, TRUE)
\*   "pulse" -> "beat"
PulseRule == Rule("STATIC_002", <<"p", "u", "l", "s", "e">>, <<"b", "e", "a", "t">>, FALSE, TRUE)
\*   "(heart" -> "core": the pattern does not compile
BrokenRule == Rule("STATIC_003", <<"(", "h", "e", "a", "r", "t">>, <<"c", "o", "r", "e">>, FALSE, TRUE)
\*   "(his) heart( pounded)?" -> "{{random:$1 pulse$2,$3,$4}}"
ReferenceRule ==
    Rule("STATIC_004", <<"(", "h", "i", "s", ")", " ", "h", "e", "a", "r", "t", "(", " ", "p", "o", "u", "n", "d", "e", "d", ")", "?">>, <<"{", "{", "r", "a", "n", "d", "o", "m", ":", "$", "1", " ", "p", "u", "l", "s", "e", "$", "2", ",", "$", "3", ",", "$", "4", "}", "}">>,
         FALSE, TRUE)
\*   "heart" -> "{{random:pulse,chest": the closing braces are missing
UnclosedRule == Rule("STATIC_005", <<"h", "e", "a", "r", "t">>, <<"{", "{", "r", "a", "n", "d", "o", "m", ":", "p", "u", "l", "s", "e", ",", "c", "h", "e", "s", "t">>, FALSE, TRUE)
\*   "pounded" -> "{{random:}}": the list is empty
EmptyListRule == Rule("STATIC_006", <<"p", "o", "u", "n", "d", "e", "d">>, <<"{", "{", "r", "a", "n", "d", "o", "m", ":", "}", "}">>, FALSE, TRUE)
\*   "heart" -> "core", generated: isStatic = false (part_002, line 198)
GeneratedRule == Rule("AI_001", <<"h", "e", "a", "r", "t">>, <<"c", "o", "r", "e">>, FALSE, FALSE)
\*   "his" -> "her", disabled
DisabledRule == Rule("STATIC_007", <<"h", "i", "s">>, <<"h", "e", "r">>, TRUE, TRUE)

\* the arrays of rules handed to loadRules, or read from the rules file
RuleArrays ==
    { <<HeartRule, PulseRule>>,
      <<BrokenRule, HeartRule>>,
      <<ReferenceRule>>,
      <<UnclosedRule, EmptyListRule>>,
      <<GeneratedRule, DisabledRule>> }

\* the sources handed to loadRules: an array, or the path of a file whose
\* fetch and parse succeed, or fail as unreachable or as invalid JSON
RuleSources ==
    [type : {"array"}, fetch : {"none"}, rules : RuleArrays]
      \cup [type : {"string"}, fetch : {"ok"}, rules : { <<HeartRule, PulseRule>> }]
      \cup [type : {"string"}, fetch : {"unreachable", "invalid JSON"},
            rules : { <<>> }]

\* the texts handed to the fixer
FixerTexts ==
    { <<>>,
      <<"s", "o", " ", "h", "i", "s", " ", "h", "e", "a", "r", "t", " ", "p", "o", "u", "n", "d", "e", "d", ".", " ", "h", "i", "s", " ", "h", "e", "a", "r", "t">>,
      <<"e", "n", "d", ".", " ", "<", "b", " ", "i", "d", "=", "a", ".", " ", "b", ">", " ", "g", "o">>,
      <<"<", "i", ">", "<", "b", ">", "t", "h", "e", " ", "e", "n", "d", ".", "\n", "\n", "h", "i", "s", " ", "p", "u", "l", "s", "e">> }

RuleIds == { "STATIC_001", "STATIC_003", "STATIC_007" }

\* a call of the fixer; source is how the last loadRules got its rules
FixerCall(op) ==
    [op |-> op, text |-> <<>>, result |-> <<>>, source |-> fixerCall.source,
     rules |-> rules, enabled |-> fixerEnabled]

\* loadRules (lines 19-35)
loadRules(rulesSource) ==
    /\ rules' = IF rulesSource.type = "string" /\ rulesSource.fetch # "ok"
                THEN <<>>
                ELSE rulesSource.rules
    /\ fixerCall' = [FixerCall("loadRules") EXCEPT
                       !.rules = rules',
                       !.source = IF rulesSource.type = "string"
                                  THEN rulesSource.fetch ELSE "array"]
    /\ UNCHANGED <<fixerEnabled, watcherVars, hostVars, workerVars,
                   generatorVars>>

\* applyReplacements (lines 42-79), with any outcome of Math.random
applyReplacementsCall(text) ==
    /\ \E result \in applyReplacements(text, rules, fixerEnabled) :
          fixerCall' = [FixerCall("applyReplacements") EXCEPT
                          !.text = text, !.result = result]
    /\ UNCHANGED <<rules, fixerEnabled, watcherVars, hostVars, workerVars,
                   generatorVars>>

\* fixCapitalization (lines 87-103)
fixCapitalizationCall(text) ==
    /\ fixerCall' = [FixerCall("fixCapitalization") EXCEPT
                       !.text = text, !.result = fixCapitalization(text)]
    /\ UNCHANGED <<rules, fixerEnabled, watcherVars, hostVars, workerVars,
                   generatorVars>>

\* process (lines 110-114)
processCall(text) ==
    /\ \E result \in process(text, rules, fixerEnabled) :
          fixerCall' = [FixerCall("process") EXCEPT
                          !.text = text, !.result = result]
    /\ UNCHANGED <<rules, fixerEnabled, watcherVars, hostVars, workerVars,
                   generatorVars>>

\* setRuleEnabled (lines 149-154): the first rule with that id
setRuleEnabled(ruleId, en) ==
    /\ \E i \in DOMAIN rules :
          /\ rules[i].id = ruleId
          /\ \A j \in 1..(i - 1) : rules[j].id # ruleId
          /\ rules[i].disabled # ~en
          /\ rules' = [rules EXCEPT ![i].disabled = ~en]
    /\ fixerCall' = FixerCall("setRuleEnabled")
    /\ UNCHANGED <<fixerEnabled, watcherVars, hostVars, workerVars,
                   generatorVars>>

\* applySettings: StaticFixer.enabled = settings.staticFixerEnabled
setFixerEnabled(b) ==
    /\ b # fixerEnabled
    /\ fixerEnabled' = b
    /\ fixerCall' = FixerCall("setFixerEnabled")
    /\ UNCHANGED <<rules, watcherVars, hostVars, workerVars,
                   generatorVars>>

NextFixer ==
    \/ \E rulesSource \in RuleSources : loadRules(rulesSource)
    \/ \E text \in FixerTexts : applyReplacementsCall(text)
    \/ \E text \in FixerTexts : fixCapitalizationCall(text)
    \/ \E text \in FixerTexts : processCall(text)
    \/ \E ruleId \in RuleIds, en \in BOOLEAN : setRuleEnabled(ruleId, en)
    \/ \E b \in BOOLEAN : setFixerEnabled(b)

SpecFixer == Init /\ [][NextFixer]_vars

\* --------------------------------------------------------------------- host
\* The string handed to PassiveWatcher.analyzeMessage as the watcher sees it:
\* its lexical items.  Whitespace separates the items, a sentence terminator
\* is an item of its own and so is a tag "<...>".
RECURSIVE Join(_)
Join(s) == IF s = <<>> THEN "" ELSE Head(s) \o Join(Tail(s))

RECURSIVE LexFrom(_, _, _)
LexFrom(s, i, word) ==
    LET flush == IF word = "" THEN <<>> ELSE <<word>>
        close == FindFrom(s, i + 1, <<">">>)
    IN  IF i > Len(s) THEN flush
        ELSE IF s[i] \in Whitespace THEN flush \o LexFrom(s, i + 1, "")
        ELSE IF s[i] \in Terminators THEN flush \o <<s[i]>> \o LexFrom(s, i + 1, "")
        ELSE IF s[i] = "<" /\ close # 0
             THEN flush \o <<Join(SubSeq(s, i, close))>> \o LexFrom(s, close + 1, "")
        ELSE LexFrom(s, i + 1, word \o s[i])

Lex(s) == LexFrom(s, 1, "")

\* the chat as analyzeChatHistory reads it: is_user and the text of each
\* message
LexChat(messages) ==
    [i \in DOMAIN messages |->
        [is_user |-> messages[i].is_user, mes |-> Lex(messages[i].mes)]]

Message(is_user, mes) ==
    [is_user |-> is_user, mes |-> mes, flags |-> {}, defined |-> TRUE]

\* the chats the user opens
HostChats ==
    { << Message(FALSE, <<"h", "i", "s", " ", "h", "e", "a", "r", "t", " ", "p", "o", "u", "n", "d", "e", "d", ".">>),
         Message(TRUE, <<"t", "h", "e", " ", "h", "e", "a", "r", "t", " ", "o", "f", " ", "t", "h", "e", ".">>) >>,
      << Message(TRUE, <<"h", "i", "s", " ", "h", "e", "a", "r", "t", " ", "p", "o", "u", "n", "d", "e", "d", ".">>),
         Message(FALSE, <<"t", "h", "e", " ", "h", "e", "a", "r", "t", " ", "o", "f", " ", "t", "h", "e", ".", " ", "t", "h", "e", " ", "h", "e", "a", "r", "t", " ", "o", "f", " ", "t", "h", "e", ".">>) >> }

\* the rules read from regex_rules.json
HostRules == <<HeartRule, PulseRule>>

\* the values Module B is given at startup (lines 2016-2017)
HostSlopThreshold == 5 * ScoreUnit
HostMessagesToAnalyze == 20

HostCall(op) ==
    [op |-> op, messageId |-> 0, message |-> NoMessage, observed |-> FALSE,
     before |-> Watcher]

\* APP_READY handler up to the await of StaticFixer.loadRules (lines
\* 1999-2009): loadSettings reads the stored settings, isAppReady is set
appReady ==
    /\ appPhase = "start"
    /\ appPhase' = "loading"
    /\ isAppReady' = TRUE
    /\ fastModeEnabled' \in BOOLEAN
    /\ hostCall' = HostCall("APP_READY")
    /\ UNCHANGED <<chat, messageCount, saving, hostSettings, suspended,
                   watcherVars, fixerVars, workerVars, generatorVars>>

\* the rest of the APP_READY handler (lines 2009-2031): the rules are loaded
\* or the load has failed, Module B is configured and the open chat analyzed
modulesInitialized(fetch) ==
    /\ appPhase = "loading"
    /\ appPhase' = "ready"
    /\ rules' = IF fetch = "ok" THEN HostRules ELSE <<>>
    /\ fixerCall' = [FixerCall("loadRules") EXCEPT
                       !.rules = rules', !.source = fetch]
    /\ LET st == [settings EXCEPT !.slopThreshold = HostSlopThreshold,
                                  !.messagesToAnalyze = HostMessagesToAnalyze]
           recent == recentMessages(LexChat(chat), st)
           w == analyzeAll([freq |-> <<>>, cand |-> {}, total |-> 0], recent,
                           enabled, whitelist, st)
       IN  /\ settings' = st
           /\ IF chat # <<>>
              THEN /\ ngramFrequencies' = w.freq
                   /\ slopCandidates' = w.cand
                   /\ totalMessagesProcessed' = w.total
                   /\ observed' = observedAll(<<>>, recent, enabled, whitelist, st)
                   /\ directPrunes' = 0
                   /\ lastCall' = [Call("analyzeChatHistory") EXCEPT
                                     !.messages = LexChat(chat),
                                     !.passed = recent,
                                     !.analyzed = Len(recent),
                                     !.phrases = getOverusedPhrases(w.freq, Undefined),
                                     !.stats = getStats(w.freq, w.cand, w.total)]
              ELSE UNCHANGED <<ngramFrequencies, slopCandidates,
                               totalMessagesProcessed, observed, directPrunes,
                               lastCall>>
    /\ hostCall' = HostCall("modules initialized")
    /\ UNCHANGED <<enabled, whitelist, fixerEnabled, chat, isAppReady,
                   messageCount, fastModeEnabled, saving, hostSettings,
                   suspended>>
    /\ UNCHANGED <<workerVars, generatorVars>>

\* context.chat[messageId], messageId counting from 1
MessageAt(messageId) ==
    IF messageId \in DOMAIN chat THEN chat[messageId] ELSE NoMessage

\* the early returns of processMessage (lines 692-702)
returnsEarlyIgnoringAuthor(message, ready) ==
    \/ ~ready
    \/ ~message.defined
    \/ "slop_fixed" \in message.flags

returnsEarly(message, ready) ==
    \/ ~ready
    \/ ~message.defined
    \/ message.is_user
    \/ "slop_fixed" \in message.flags

\* text.trim().split(/\s+/).filter(w => w).length (lines 318-319)
WordCount(text) ==
    Cardinality({ i \in DOMAIN text :
                    /\ text[i] \notin Whitespace
                    /\ (i = 1 \/ text[i - 1] \in Whitespace) })

\* settings.minWords and settings.maxWords (lines 31-32)
minWords == 50
maxWords == 500

\* detectViolations (lines 314-382), the types of the violations found: the
\* word count against its two limits.  The checks of paragraphs, dialogues,
\* user control and perspective find nothing in the sample texts, which are
\* one paragraph in the third person that names no user.
detectViolations(text) ==
    IF WordCount(text) < minWords \/ WordCount(text) > maxWords
    THEN {"word_count"} ELSE {}

\* shouldRunQuality (lines 746-748), count being messageCount after its
\* increment
shouldRunQuality(count, hs) ==
    /\ hs.qualityModeEnabled
    /\ ~hs.qualityModeManualOnly
    /\ count % hs.qualityModeInterval = 0

Suspended(messageId, at, currentText) ==
    [messageId |-> messageId, at |-> at, currentText |-> currentText]

\* the try block of processMessage up to its await (lines 818-822) on the
\* chat ch: context.chat[messageId] is read again and its text replaced; with
\* no such message the assignment throws, which the catch logs
applyChanges(ch, sv, su, messageId, currentText) ==
    IF messageId \in DOMAIN ch
    THEN [chat |-> [ch EXCEPT ![messageId].mes = currentText],
          saving |-> sv \cup { [messageId |-> messageId, stale |-> FALSE] },
          suspended |-> su]
    ELSE [chat |-> ch, saving |-> sv, suspended |-> su]

\* processMessage from "if (wasModified)" to its next await (lines 797-822)
reviewAndApply(ch, sv, su, messageId, currentText, wasModified, hs) ==
    IF ~wasModified THEN [chat |-> ch, saving |-> sv, suspended |-> su]
    ELSE IF ~hs.autoMode
    THEN [chat |-> ch, saving |-> sv,
          suspended |-> su \cup { Suspended(messageId, "showDiffPopup",
                                            currentText) }]
    ELSE applyChanges(ch, sv, su, messageId, currentText)

\* processMessage (lines 691-822) up to its return or its first await: of
\* aiRewrite, of showDiffPopup or of saveChatConditional
processMessage(messageId) ==
    LET message == MessageAt(messageId)
    IN  IF returnsEarly(message, isAppReady)
        THEN /\ hostCall' = [HostCall("processMessage") EXCEPT
                               !.messageId = messageId, !.message = message]
             /\ UNCHANGED <<chat, isAppReady, appPhase, messageCount,
                            fastModeEnabled, saving, hostSettings, suspended,
                            watcherVars, fixerVars, workerVars, generatorVars>>
        ELSE /\ messageCount < MaxMessages
             /\ totalMessagesProcessed < MaxMessages
             /\ \E staticResult \in
                     IF fastModeEnabled
                     THEN process(message.mes, rules, fixerEnabled)
                     ELSE { message.mes } :
                  LET currentText == staticResult
                      wasModified == staticResult # message.mes
                      text == Lex(currentText)
                      w == analyzeMessageEffect(Watcher, text, enabled,
                                                whitelist, settings)
                      quality == /\ shouldRunQuality(messageCount + 1,
                                                     hostSettings)
                                 /\ detectViolations(currentText) # {}
                      r == IF quality
                           THEN [chat |-> chat, saving |-> saving,
                                 suspended |->
                                    suspended \cup
                                      { Suspended(messageId, "aiRewrite",
                                                  currentText) }]
                           ELSE reviewAndApply(chat, saving, suspended,
                                               messageId, currentText,
                                               wasModified, hostSettings)
                  IN  /\ IF fastModeEnabled
                         THEN /\ ngramFrequencies' = w.freq
                              /\ slopCandidates' = w.cand
                              /\ totalMessagesProcessed' = w.total
                              /\ observed' =
                                   IF IsProcessed(text, enabled)
                                   THEN Append(observed,
                                               LogEntry(text, whitelist, settings))
                                   ELSE observed
                              /\ lastCall' =
                                   [Call("analyzeMessage") EXCEPT
                                      !.text = text,
                                      !.passed =
                                         <<[is_user |-> message.is_user,
                                            mes |-> text]>>]
                              /\ fixerCall' = [FixerCall("process") EXCEPT
                                                 !.text = message.mes,
                                                 !.result = staticResult]
                         ELSE UNCHANGED <<ngramFrequencies, slopCandidates,
                                          totalMessagesProcessed, observed,
                                          lastCall, fixerCall>>
                      /\ chat' = r.chat
                      /\ saving' = r.saving
                      /\ suspended' = r.suspended
             /\ messageCount' = messageCount + 1
             /\ hostCall' = [HostCall("processMessage") EXCEPT
                               !.messageId = messageId, !.message = message,
                               !.observed = fastModeEnabled]
             /\ UNCHANGED <<settings, enabled, whitelist, directPrunes, rules,
                            fixerEnabled, isAppReady, appPhase, fastModeEnabled,
                            hostSettings>>
             /\ UNCHANGED <<workerVars, generatorVars>>

\* the texts the AI returns to aiRewrite
Rewrites == { <<"S", "h", "e", " ", "w", "a", "i", "t", "e", "d", ".">> }

\* processMessage after aiRewrite has resolved (lines 767-822), with
\* settings.learningEnabled off: result holds the trimmed text the AI
\* returned, or has failed set when the request failed and aiRewrite returns
\* the text it was given (lines 596-605)
aiRewriteResolvedThenObserves(messageId, result) ==
    /\ totalMessagesProcessed < MaxMessages
    /\ \E s \in suspended :
          /\ s.messageId = messageId
          /\ s.at = "aiRewrite"
          /\ LET currentText == IF result.failed THEN s.currentText
                                ELSE result.text
                 r == reviewAndApply(chat, saving, suspended \ { s },
                                     messageId, currentText, TRUE,
                                     hostSettings)
                 w == analyzeMessageEffect(Watcher, Lex(currentText), enabled,
                                           whitelist, settings)
             IN  /\ chat' = r.chat
                 /\ saving' = r.saving
                 /\ suspended' = r.suspended
                 /\ ngramFrequencies' = w.freq
                 /\ slopCandidates' = w.cand
                 /\ totalMessagesProcessed' = w.total
    /\ hostCall' = [HostCall("aiRewrite resolved") EXCEPT
                      !.messageId = messageId]
    /\ UNCHANGED <<isAppReady, appPhase, messageCount, fastModeEnabled,
                   hostSettings, settings, enabled, whitelist, lastCall,
                   observed, directPrunes, fixerVars, workerVars,
                   generatorVars>>

aiRewriteResolved(messageId, result) ==
    /\ \E s \in suspended :
          /\ s.messageId = messageId
          /\ s.at = "aiRewrite"
          /\ LET currentText == IF result.failed THEN s.currentText
                                ELSE result.text
                 r == reviewAndApply(chat, saving, suspended \ { s },
                                     messageId, currentText, TRUE,
                                     hostSettings)
             IN  /\ chat' = r.chat
                 /\ saving' = r.saving
                 /\ suspended' = r.suspended
    /\ hostCall' = [HostCall("aiRewrite resolved") EXCEPT
                      !.messageId = messageId]
    /\ UNCHANGED <<isAppReady, appPhase, messageCount, fastModeEnabled,
                   hostSettings, watcherVars, fixerVars, workerVars,
                   generatorVars>>

\* processMessage after showDiffPopup has resolved (lines 805-822): the user
\* has accepted the changes or rejected them
showDiffPopupResolved(messageId, accepted) ==
    /\ \E s \in suspended :
          /\ s.messageId = messageId
          /\ s.at = "showDiffPopup"
          /\ LET r == IF accepted
                      THEN applyChanges(chat, saving, suspended \ { s },
                                        messageId, s.currentText)
                      ELSE [chat |-> chat, saving |-> saving,
                            suspended |-> suspended \ { s }]
             IN  /\ chat' = r.chat
                 /\ saving' = r.saving
                 /\ suspended' = r.suspended
    /\ hostCall' = [HostCall("showDiffPopup resolved") EXCEPT
                      !.messageId = messageId]
    /\ UNCHANGED <<isAppReady, appPhase, messageCount, fastModeEnabled,
                   hostSettings, watcherVars, fixerVars, workerVars,
                   generatorVars>>

\* the change handlers of the settings panel (lines 1222-1236 and
\* 1471-1474)
settingsChanged(hs) ==
    /\ hs # hostSettings
    /\ hostSettings' = hs
    /\ hostCall' = HostCall("settings changed")
    /\ UNCHANGED <<chat, isAppReady, appPhase, messageCount, fastModeEnabled,
                   saving, suspended, watcherVars, fixerVars, workerVars,
                   generatorVars>>

\* processMessage after saveChatConditional has resolved (lines 822-830): the
\* message object it wrote to is marked; that object is no message of the
\* open chat once the chat has changed
saveChatDone(s) ==
    /\ s \in saving
    /\ saving' = saving \ { s }
    /\ chat' = IF s.stale THEN chat
               ELSE [chat EXCEPT ![s.messageId].flags = @ \cup { "slop_fixed" }]
    /\ hostCall' = [HostCall("saveChatConditional resolved") EXCEPT
                      !.messageId = s.messageId]
    /\ UNCHANGED <<isAppReady, appPhase, messageCount, fastModeEnabled,
                   hostSettings, suspended, watcherVars, fixerVars,
                   workerVars, generatorVars>>

\* CHAT_CHANGED handler (lines 2072-2078): the user has opened another chat
chatChanged(newChat) ==
    /\ newChat # chat
    /\ chat' = newChat
    /\ messageCount' = 0
    /\ saving' = { [s EXCEPT !.stale = TRUE] : s \in saving }
    /\ hostCall' = HostCall("CHAT_CHANGED")
    /\ UNCHANGED <<isAppReady, appPhase, fastModeEnabled, hostSettings,
                   suspended, watcherVars, fixerVars, workerVars,
                   generatorVars>>

FetchOutcomes == {"ok", "unreachable"}

\* the message ids handed to processMessage, counting from 1: those of the
\* chats and one past their end
MessageIds == 1..3

NextHost ==
    \/ appReady
    \/ \E fetch \in FetchOutcomes : modulesInitialized(fetch)
    \/ \E messageId \in MessageIds : processMessage(messageId)
    \/ \E s \in [messageId : MessageIds, stale : BOOLEAN] : saveChatDone(s)
    \/ \E newChat \in HostChats : chatChanged(newChat)

\* the host uses the exported instance, new PassiveWatcher() without options
\* (passive-watcher.js, line 297): of the sample settings, the one with the
\* default threshold 5.0 and the longer pruning cycle
InitHost ==
    /\ Init
    /\ settings.slopThreshold = HostSlopThreshold
    /\ settings.pruningCycle = 2

SpecHost == InitHost /\ [][NextHost]_vars

\* ------------------------------------------------------------------ worker
\* cap of the number of requests posted to the worker
MaxRequests == 3

\* the options handed to the worker's watcher
WorkerSettings == { st \in SettingsChoices : st.slopThreshold = 3 * ScoreUnit }

WorkerTexts ==
    { <<"the", "heart", "of", "the", ".">>,
      <<"His", "heart", "pounded", ".", "heart", "of", "the">> }

WorkerChats ==
    { << [is_user |-> FALSE, mes |-> <<"His", "heart", "pounded", ".">>],
         [is_user |-> TRUE,  mes |-> <<"the", "heart", "of", "the", ".">>],
         [is_user |-> FALSE, mes |-> <<"the", "heart", "of", "the", ".">>] >> }

\* the messages the main thread posts: the seven request types with their
\* data, three of them also without data, and a type the worker does not know
WorkerRequests ==
    { Request("init", TRUE, <<>>, <<>>, Undefined, st) : st \in WorkerSettings }
      \cup { Request(type, FALSE, <<>>, <<>>, Undefined, <<>>) :
               type \in {"init", "analyzeMessage", "updateSettings"} }
      \cup { Request("analyzeMessage", TRUE, text, <<>>, Undefined, <<>>) :
               text \in WorkerTexts }
      \cup { Request("analyzeBatch", TRUE, <<>>, messages, Undefined, <<>>) :
               messages \in WorkerChats }
      \cup { Request("getOverusedPhrases", TRUE, <<>>, <<>>, Undefined, <<>>) }
      \cup { Request(type, TRUE, <<>>, <<>>, Undefined, <<>>) :
               type \in {"getStats", "reset", "unknown"} }
      \cup { Request("updateSettings", TRUE, <<>>, <<>>, Undefined, st) :
               st \in { s \in WorkerSettings : s.pruningCycle = 1 } }

\* worker.postMessage on the main thread: the request joins the worker's
\* message queue
postMessage(request) ==
    /\ Len(requests) < MaxRequests
    /\ requests' = Append(requests, request)
    /\ UNCHANGED <<watcherInstance, handled, workerCall>>
    /\ UNCHANGED <<watcherVars, fixerVars, hostVars, generatorVars>>

\* the types whose case reads a property of data (lines 19, 26, 37, 48, 77)
ReadsData == {"init", "analyzeMessage", "analyzeBatch", "getOverusedPhrases",
              "updateSettings"}

\* whether handling e throws: data is undefined and the case reached reads
\* data.settings, data.text, data.messages or data.minScore
Throws(e, instance) ==
    /\ e.type \in ReadsData
    /\ ~e.hasData
    /\ e.type = "init" \/ instance

\* the type of the response of each request (lines 20-78)
ResponseType(type) ==
    CASE type = "init" -> "ready"
      [] type = "analyzeMessage" -> "messageAnalyzed"
      [] type = "analyzeBatch" -> "batchComplete"
      [] type = "getOverusedPhrases" -> "overusedPhrases"
      [] type = "getStats" -> "stats"
      [] type = "reset" -> "resetComplete"
      [] type = "updateSettings" -> "settingsUpdated"

\* the messages self.onmessage posts while it handles e (lines 15-91)
Replies(e, instance) ==
    IF Throws(e, instance) THEN <<"error">>
    ELSE IF e.type = "init" THEN <<"ready">>
    ELSE IF e.type = "unknown" \/ ~instance THEN <<>>
    ELSE <<ResponseType(e.type)>>

\* self.onmessage (lines 12-92): the event loop hands the worker the oldest
\* request not yet handled, and the handler runs to its end
onmessage ==
    /\ handled < Len(requests)
    /\ LET e == requests[handled + 1]
           acts == ~Throws(e, watcherInstance)
                     /\ (e.type = "init" \/ watcherInstance)
           recent == recentMessages(e.messages, settings)
           w == CASE acts /\ e.type = "analyzeMessage" ->
                       analyzeMessageEffect(Watcher, e.text, enabled, whitelist,
                                            settings)
                  [] acts /\ e.type = "analyzeBatch" ->
                       analyzeAll([freq |-> <<>>, cand |-> {}, total |-> 0],
                                  recent, enabled, whitelist, settings)
                  [] acts /\ e.type \in {"init", "reset"} ->
                       [freq |-> <<>>, cand |-> {}, total |-> 0]
                  [] OTHER -> Watcher
       IN  /\ (acts /\ e.type = "analyzeMessage") =>
                 totalMessagesProcessed < MaxMessages
           /\ handled' = handled + 1
           /\ workerCall' = [request |-> e,
                             replies |-> Replies(e, watcherInstance)]
           /\ watcherInstance' = (watcherInstance \/ (acts /\ e.type = "init"))
           /\ ngramFrequencies' = w.freq
           /\ slopCandidates' = w.cand
           /\ totalMessagesProcessed' = w.total
           /\ settings' = IF acts /\ e.type \in {"init", "updateSettings"}
                          THEN e.settings ELSE settings
           /\ enabled' = IF acts /\ e.type = "init" THEN TRUE ELSE enabled
           /\ whitelist' = IF acts /\ e.type = "init" THEN COMMON_WORDS
                           ELSE whitelist
           /\ directPrunes' = IF acts /\ e.type \in {"init", "reset", "analyzeBatch"}
                              THEN 0 ELSE directPrunes
           /\ observed' =
                CASE acts /\ e.type = "analyzeMessage"
                       /\ IsProcessed(e.text, enabled) ->
                       Append(observed, LogEntry(e.text, whitelist, settings))
                  [] acts /\ e.type = "analyzeBatch" ->
                       observedAll(<<>>, recent, enabled, whitelist, settings)
                  [] acts /\ e.type \in {"init", "reset"} -> <<>>
                  [] OTHER -> observed
           /\ lastCall' =
                CASE acts /\ e.type = "init" -> Call("constructor")
                  [] acts /\ e.type = "analyzeMessage" ->
                       [Call("analyzeMessage") EXCEPT
                          !.text = e.text,
                          !.stats = getStats(w.freq, w.cand, w.total)]
                  [] acts /\ e.type = "analyzeBatch" ->
                       [Call("analyzeChatHistory") EXCEPT
                          !.messages = e.messages,
                          !.passed = recent,
                          !.analyzed = Len(recent),
                          !.phrases = getOverusedPhrases(w.freq, Undefined),
                          !.stats = getStats(w.freq, w.cand, w.total)]
                  [] acts /\ e.type = "getOverusedPhrases" ->
                       [Call("getOverusedPhrases") EXCEPT
                          !.minScore = e.minScore,
                          !.phrases = getOverusedPhrases(ngramFrequencies,
                                                         e.minScore)]
                  [] acts /\ e.type = "getStats" ->
                       [Call("getStats") EXCEPT
                          !.stats = getStats(w.freq, w.cand, w.total)]
                  [] acts /\ e.type = "reset" -> Call("reset")
                  [] OTHER -> lastCall
    /\ UNCHANGED requests
    /\ UNCHANGED <<fixerVars, hostVars, generatorVars>>

NextWorker ==
    \/ \E request \in WorkerRequests : postMessage(request)
    \/ onmessage

\* the worker's watcher does not exist before the first init: of the sample
\* settings one is enough to start from
InitWorker ==
    /\ Init
    /\ settings.slopThreshold = 3 * ScoreUnit
    /\ settings.pruningCycle = 2

SpecWorker == InitWorker /\ [][NextWorker]_vars

\* a chat whose two messages are both the other speaker's; the Static Fixer
\* has nothing to change in the second
OverlapChat ==
    << Message(FALSE, <<"t", "h", "e", " ", "h", "e", "a", "r", "t", " ", "o", "f", " ", "t", "h", "e", ".">>),
       Message(FALSE, <<"T", "h", "e", " ", "h", "e", "a", "r", "t", " ", "o", "f", " ", "t", "h", "e", " ", "e", "n", "d", ".">>) >>

\* the settings the user chooses in the panel: the stored ones, or quality
\* mode at every message with the review of the changes
HostSettingsChoices ==
    { StoredSettings,
      [StoredSettings EXCEPT !.qualityModeManualOnly = FALSE,
                             !.qualityModeInterval = 1, !.autoMode = FALSE] }

\* the outcomes of the AI request: here the AI always answers
AIResults == { [failed |-> FALSE, text |-> t] : t \in Rewrites }

\* the user changes the settings in the panel of the extension before
\* opening the chat
userChoosesSettings(hs) ==
    /\ isAppReady
    /\ chat = <<>>
    /\ settingsChanged(hs)

\* the user opens the chat, once, when the extension is ready
userOpensChat ==
    /\ appPhase = "ready"
    /\ chat = <<>>
    /\ chatChanged(OverlapChat)

\* the watcher of the extension and the watcher of the worker are two
\* instances: a behaviour follows the extension, which starts with APP_READY
\* and has fast mode on, or the worker, which starts with its first request
extensionStarts ==
    /\ requests = <<>>
    /\ appReady
    /\ fastModeEnabled'

\* the requests that start the worker's watcher, have it observe a text and
\* clear it, and one the worker cannot handle
OrderedRequests ==
    { request \in WorkerRequests :
        \/ request.type \in {"analyzeMessage", "reset"}
        \/ request.type = "init" /\ request.hasData
                                /\ request.settings.pruningCycle = 1 }

workerReceives(request) ==
    /\ appPhase = "start"
    /\ postMessage(request)

\* the extension while the calls of processMessage for the messages of one
\* chat overlap, or the worker while requests arrive
NextOverlap ==
    \/ extensionStarts
    \/ \E request \in OrderedRequests : workerReceives(request)
    \/ onmessage
    \/ modulesInitialized("ok")
    \/ \E hs \in HostSettingsChoices : userChoosesSettings(hs)
    \/ userOpensChat
    \/ \E messageId \in DOMAIN OverlapChat : processMessage(messageId)
    \/ \E messageId \in DOMAIN OverlapChat, result \in AIResults :
          aiRewriteResolved(messageId, result)
    \/ \E messageId \in DOMAIN OverlapChat, accepted \in BOOLEAN :
          showDiffPopupResolved(messageId, accepted)
    \/ \E s \in [messageId : DOMAIN OverlapChat, stale : BOOLEAN] : saveChatDone(s)

SpecOverlap == InitHost /\ [][NextOverlap]_vars

\* --------------------------------------------------------------- generator
\* const BATCH_SIZE = 10, const MIN_ALTERNATIVES = 15 (part_002, lines 35-36)
BATCH_SIZE == 10
MIN_ALTERNATIVES == 15

\* cap of the length of dynamicRules
MaxRules == 2

\* cap of the number of generateRulesFromPhrases calls suspended at a time
MaxGenerating == 2

\* a rule object as the AI or an imported file gives it, and null in its
\* place; a property left out is the empty string
Entry(scriptName, findRegex, replaceString) ==
    [isNull |-> FALSE, scriptName |-> scriptName, findRegex |-> findRegex,
     replaceString |-> replaceString, id |-> "", disabled |-> FALSE,
     isStatic |-> FALSE, origin |-> "none"]

NullEntry ==
    [isNull |-> TRUE, scriptName |-> "", findRegex |-> <<>>,
     replaceString |-> <<>>, id |-> "", disabled |-> FALSE,
     isStatic |-> FALSE, origin |-> "none"]

\* a JSON text by what JSON.parse makes of it: a SyntaxError (valid FALSE), or
\* null, an object without rules, an array of entries, or an object whose
\* rules property is an array of entries; JSON.stringify of such a value
\* gives a text that parses to it again
Json(kind, entries) == [valid |-> TRUE, kind |-> kind, entries |-> entries]
InvalidJson == [valid |-> FALSE, kind |-> "none", entries |-> <<>>]

\* this.settings.dynamicRules || []
rulesOr(dr) == IF dr.given THEN dr.value ELSE <<>>

\* !rule.scriptName || !rule.findRegex || !rule.replaceString
missingFields(rule) ==
    rule.scriptName = "" \/ rule.findRegex = <<>> \/ rule.replaceString = <<>>

\* rule.replaceString.match(/^{{random:(.+)}}$/) (line 183)
listMatch(replaceString) ==
    LET n == Len(replaceString)
        from == Len(RandomMarker) + 1
    IN  IF /\ n >= from + 2
           /\ StartsWithAt(replaceString, 1, RandomMarker)
           /\ replaceString[n - 1] = "}"
           /\ replaceString[n] = "}"
           /\ \A i \in from..(n - 2) : replaceString[i] # "\n"
        THEN [found |-> TRUE, list |-> SubSeq(replaceString, from, n - 2)]
        ELSE NoOptions

\* match[1].split(',').map(s => s.trim()).filter(s => s) (line 189)
RECURSIVE alternatives(_)
alternatives(list) ==
    LET comma == FindFrom(list, 1, <<",">>)
        first == trim(IF comma = 0 THEN list ELSE SubSeq(list, 1, comma - 1))
        kept == IF first = <<>> THEN <<>> ELSE <<first>>
    IN  IF comma = 0 THEN kept
        ELSE kept \o alternatives(SubSeq(list, comma + 1, Len(list)))

\* the checks of parseAndValidateRules on one rule (lines 169-193)
isValidGenerated(rule) ==
    /\ ~missingFields(rule)
    /\ RegExp(rule.findRegex).ok
    /\ listMatch(rule.replaceString).found
    /\ Len(alternatives(listMatch(rule.replaceString).list)) >= MIN_ALTERNATIVES

\* the loop of parseAndValidateRules (lines 167-203): reading a property of
\* a null entry throws
RECURSIVE validateFrom(_, _)
validateFrom(rulesArray, acc) ==
    IF rulesArray = <<>> THEN [threw |-> FALSE, rules |-> acc]
    ELSE LET rule == Head(rulesArray)
         IN  IF rule.isNull THEN [threw |-> TRUE, rules |-> <<>>]
             ELSE IF isValidGenerated(rule)
             THEN validateFrom(Tail(rulesArray),
                               Append(acc, [rule EXCEPT !.id = "AI",
                                                         !.disabled = FALSE,
                                                         !.isStatic = FALSE,
                                                         !.origin = "isAI"]))
             ELSE validateFrom(Tail(rulesArray), acc)

\* callAI followed by parseAndValidateRules (lines 49-50, 137-212): the batch
\* fails when the AI call throws, when the response is empty and when it does
\* not parse
newRulesOf(response) ==
    IF response.kind # "text" \/ ~response.json.valid
         \/ response.json.kind = "null"
    THEN [threw |-> TRUE, rules |-> <<>>]
    ELSE validateFrom(response.json.entries, <<>>)

\* saveRulesToSettings (lines 217-226)
saveRulesToSettings(dr, newRules) == Given(rulesOr(dr) \o newRules)

\* the sample rules of the generator
ListOfFifteen == <<"{", "{", "r", "a", "n", "d", "o", "m", ":", "a", ",", "b", ",", "c", ",", "d", ",", "e", ",", "f", ",", "g", ",", "h", ",", "i", ",", "j", ",", "k", ",", "l", ",", "m", ",", "n", ",", "o", "}", "}">>
HeartEntry == Entry("Slopfix - Heart", <<"(", "h", "i", "s", ")", " ", "h", "e", "a", "r", "t">>, ListOfFifteen)
PulseEntry == Entry("Slopfix - Pulse", <<"p", "u", "l", "s", "e">>, <<"b", "e", "a", "t">>)
FewEntry == Entry("Slopfix - Few", <<"h", "e", "a", "r", "t">>, <<"{", "{", "r", "a", "n", "d", "o", "m", ":", "a", ",", " ", "b", ",", "}", "}">>)
BrokenEntry == Entry("Slopfix - Broken", <<"(", "h", "e", "a", "r", "t">>, ListOfFifteen)
NamelessEntry == Entry("", <<"h", "e", "a", "r", "t">>, ListOfFifteen)

\* what a call of the AI can come to
AIResponse(kind, json) == [kind |-> kind, json |-> json]
AIResponses ==
    { AIResponse("throws", InvalidJson),
      AIResponse("empty", InvalidJson),
      AIResponse("text", InvalidJson),
      AIResponse("text", Json("array", <<HeartEntry, FewEntry>>)),
      AIResponse("text", Json("array", <<FewEntry, BrokenEntry, NamelessEntry>>)) }

\* the phrase lists handed to generateRulesFromPhrases: none, one batch, two
\* batches
GeneratorPhrases ==
    { <<>>, <<"his heart pounded">>,
      [i \in 1..(BATCH_SIZE + 1) |-> "his heart pounded"] }

\* a call of the generator that has returned: what it returned, whether it
\* took an error path (failed) or found a generation in progress (busy), how
\* often it called the AI, how many rules it added to dynamicRules, and
\* whether dynamicRules holds other rules than before the call
GeneratorCall(op) ==
    [op |-> op, returned |-> 0, failed |-> FALSE, busy |-> FALSE,
     aiCalls |-> 0, added |-> 0, changed |-> FALSE,
     json |-> [valid |-> FALSE, kind |-> "none", entries |-> <<>>]]

\* the guard of generateRulesFromPhrases (lines 22-26)
inProgressNever(generatingNow) == FALSE

inProgress(generatingNow) == generatingNow

\* generateRulesFromPhrases (lines 21-49) up to its return or its first await
\* of callAI
generateRulesFromPhrases(phrases) ==
    IF inProgress(isGenerating) \/ phrases = <<>>
    THEN /\ generatorCall' = [GeneratorCall("generateRulesFromPhrases") EXCEPT
                                !.busy = inProgress(isGenerating)]
         /\ UNCHANGED <<dynamicRules, isGenerating, generating>>
         /\ UNCHANGED <<watcherVars, fixerVars, hostVars, workerVars>>
    ELSE /\ Len(generating) < MaxGenerating
         /\ isGenerating' = TRUE
         /\ generating' = Append(generating,
                                 [phrases |-> phrases, i |-> 0,
                                  totalGenerated |-> 0, failed |-> FALSE,
                                  aiCalls |-> 1, added |-> 0])
         /\ UNCHANGED <<dynamicRules, generatorCall>>
         /\ UNCHANGED <<watcherVars, fixerVars, hostVars, workerVars>>

\* generateRulesFromPhrases from the end of an await of callAI (lines 49-77)
\* to the next await or the return
callAIResolved(k, response) ==
    /\ k \in DOMAIN generating
    /\ LET g == generating[k]
           new == newRulesOf(response)
           saves == ~new.threw /\ new.rules # <<>>
           h == [g EXCEPT !.i = g.i + BATCH_SIZE,
                          !.failed = g.failed \/ new.threw,
                          !.totalGenerated = IF saves THEN @ + Len(new.rules)
                                             ELSE @,
                          !.added = IF saves THEN @ + Len(new.rules) ELSE @]
       IN  /\ saves => Len(rulesOr(dynamicRules)) + Len(new.rules) <= MaxRules
           /\ dynamicRules' = IF saves
                              THEN saveRulesToSettings(dynamicRules, new.rules)
                              ELSE dynamicRules
           /\ IF h.i < Len(h.phrases)
              THEN /\ generating' = [generating EXCEPT
                                       ![k] = [h EXCEPT !.aiCalls = @ + 1]]
                   /\ generatorCall' = GeneratorCall("callAI")
                   /\ UNCHANGED isGenerating
              ELSE /\ generating' = [j \in 1..(Len(generating) - 1) |->
                                        IF j < k THEN generating[j]
                                        ELSE generating[j + 1]]
                   /\ isGenerating' = FALSE
                   /\ generatorCall' =
                        [GeneratorCall("generateRulesFromPhrases") EXCEPT
                           !.returned = h.totalGenerated,
                           !.failed = h.failed,
                           !.aiCalls = h.aiCalls,
                           !.added = h.added,
                           !.changed = h.added > 0]
    /\ UNCHANGED <<watcherVars, fixerVars, hostVars, workerVars>>

\* clearDynamicRules (lines 238-242)
clearDynamicRules ==
    /\ dynamicRules' = Given(<<>>)
    /\ generatorCall' = [GeneratorCall("clearDynamicRules") EXCEPT
                           !.changed = rulesOr(dynamicRules) # <<>>]
    /\ UNCHANGED <<isGenerating, generating>>
    /\ UNCHANGED <<watcherVars, fixerVars, hostVars, workerVars>>

\* addRule (lines 249-279): a rule without its fields or with a pattern that
\* does not compile throws and nothing is added
addRule(rule) ==
    /\ Len(rulesOr(dynamicRules)) < MaxRules
    /\ LET throws == missingFields(rule) \/ ~RegExp(rule.findRegex).ok
       IN  /\ dynamicRules' =
                IF throws THEN dynamicRules
                ELSE Given(Append(rulesOr(dynamicRules),
                                  [rule EXCEPT !.id = "MANUAL",
                                               !.isStatic = FALSE,
                                               !.origin = "isManual"]))
           /\ generatorCall' = [GeneratorCall("addRule") EXCEPT
                                  !.failed = throws,
                                  !.returned = IF throws THEN 0 ELSE 1,
                                  !.added = IF throws THEN 0 ELSE 1,
                                  !.changed = ~throws]
    /\ UNCHANGED <<isGenerating, generating>>
    /\ UNCHANGED <<watcherVars, fixerVars, hostVars, workerVars>>

\* rules.findIndex(r => r.id === ruleId), 0 for -1
findIndex(rs, ruleId) ==
    LET hits == { i \in DOMAIN rs : rs[i].id = ruleId }
    IN  IF hits = {} THEN 0 ELSE CHOOSE i \in hits : \A j \in hits : i <= j

\* deleteRule (lines 319-333)
deleteRule(ruleId) ==
    /\ LET rs == rulesOr(dynamicRules)
           index == findIndex(rs, ruleId)
       IN  /\ index # 0
           /\ dynamicRules' = Given(SubSeq(rs, 1, index - 1)
                                      \o SubSeq(rs, index + 1, Len(rs)))
    /\ generatorCall' = [GeneratorCall("deleteRule") EXCEPT
                           !.returned = 1, !.changed = TRUE]
    /\ UNCHANGED <<isGenerating, generating>>
    /\ UNCHANGED <<watcherVars, fixerVars, hostVars, workerVars>>

\* exportRules (lines 339-355): null for an empty store, else the JSON text
\* of { version, exported, rules }
exportRules(dr) ==
    IF rulesOr(dr) = <<>> THEN Json("null", <<>>)
    ELSE Json("wrapped", rulesOr(dr))

exportRulesCall ==
    /\ generatorCall' = [GeneratorCall("exportRules") EXCEPT
                           !.json = exportRules(dynamicRules)]
    /\ UNCHANGED <<dynamicRules, isGenerating, generating>>
    /\ UNCHANGED <<watcherVars, fixerVars, hostVars, workerVars>>

\* existingRules.some(r => r.findRegex === rule.findRegex &&
\*                         r.replaceString === rule.replaceString)
isDuplicate(existingRules, rule) ==
    \E i \in DOMAIN existingRules :
        /\ existingRules[i].findRegex = rule.findRegex
        /\ existingRules[i].replaceString = rule.replaceString

\* the loop of importRules (lines 374-407) on the array existingRules
RECURSIVE importFrom(_, _, _)
importFrom(imported, existingRules, validCount) ==
    IF imported = <<>>
    THEN [threw |-> FALSE, rules |-> existingRules, validCount |-> validCount]
    ELSE LET rule == Head(imported)
         IN  IF rule.isNull
             THEN [threw |-> TRUE, rules |-> existingRules,
                   validCount |-> validCount]
             ELSE IF \/ missingFields(rule)
                     \/ ~RegExp(rule.findRegex).ok
                     \/ isDuplicate(existingRules, rule)
             THEN importFrom(Tail(imported), existingRules, validCount)
             ELSE importFrom(Tail(imported),
                             Append(existingRules,
                                    [rule EXCEPT !.id = "IMP",
                                                 !.isStatic = FALSE,
                                                 !.origin = "isImported"]),
                             validCount + 1)

\* importRules (lines 362-424) as a function of the store: existingRules is
\* the array of the store itself when the store has one, and the loop pushes
\* onto it; only a new array is lost when the loop throws
importRulesEffect(dr, json) ==
    IF ~json.valid \/ json.kind \in {"null", "object"}
    THEN [failed |-> TRUE, returned |-> 0, dynamicRules |-> dr]
    ELSE LET r == importFrom(json.entries, rulesOr(dr), 0)
         IN  IF r.threw
             THEN [failed |-> TRUE, returned |-> 0,
                   dynamicRules |-> IF dr.given THEN Given(r.rules) ELSE dr]
             ELSE [failed |-> FALSE, returned |-> r.validCount,
                   dynamicRules |-> IF dr.given \/ r.validCount > 0
                                    THEN Given(r.rules) ELSE dr]

importRules(json) ==
    /\ LET r == importRulesEffect(dynamicRules, json)
       IN  /\ Len(rulesOr(r.dynamicRules)) <= MaxRules
           /\ dynamicRules' = r.dynamicRules
           /\ generatorCall' = [GeneratorCall("importRules") EXCEPT
                                  !.failed = r.failed,
                                  !.returned = r.returned,
                                  !.added = Len(rulesOr(r.dynamicRules))
                                              - Len(rulesOr(dynamicRules)),
                                  !.changed = rulesOr(r.dynamicRules)
                                                # rulesOr(dynamicRules),
                                  !.json = json]
    /\ UNCHANGED <<isGenerating, generating>>
    /\ UNCHANGED <<watcherVars, fixerVars, hostVars, workerVars>>

\* the texts handed to importRules
ImportTexts ==
    { InvalidJson,
      Json("null", <<>>),
      Json("object", <<>>),
      Json("array", <<HeartEntry, HeartEntry>>),
      Json("array", <<PulseEntry, NullEntry>>),
      Json("wrapped", <<HeartEntry, PulseEntry, BrokenEntry, NamelessEntry>>) }

ManualRules == { PulseEntry, BrokenEntry }

GeneratedIds == { "AI", "IMP", "MANUAL" }

NextGenerator ==
    \/ \E phrases \in GeneratorPhrases : generateRulesFromPhrases(phrases)
    \/ \E k \in 1..MaxGenerating, response \in AIResponses :
          callAIResolved(k, response)
    \/ clearDynamicRules
    \/ \E rule \in ManualRules : addRule(rule)
    \/ \E ruleId \in GeneratedIds : deleteRule(ruleId)
    \/ exportRulesCall
    \/ \E json \in ImportTexts : importRules(json)

SpecGenerator == InitHost /\ [][NextGenerator]_vars

\* ------------------------------------------------------------------- decay
\* a non-empty message is observed: analyzeMessage gets past its early returns
\* and counts the message (this.totalMessagesProcessed++, line 174)
Observes ==
    /\ totalMessagesProcessed < MaxMessages
    /\ totalMessagesProcessed' = totalMessagesProcessed + 1

\* the watcher while messages keep being observed
NextDecay == \E text \in Texts : analyzeMessage(text)

\* non-empty messages keep being observed for as long as the counter has not
\* reached its cap
SpecDecay ==
    Init /\ [][NextDecay]_vars /\ WF_totalMessagesProcessed(Observes)

\* ------------------------------------------------------------------ claims
\* the record of a key in a table, a first observation's start if absent
RecordOf(freq, key) ==
    IF IndexOf(freq, key) = 0
    THEN [phrase |-> key, count |-> 0, score |-> 0, lastSeen |-> 0]
    ELSE freq[IndexOf(freq, key)]

\* the last call was an analyzeMessage that got past its early returns
LastAnalyzed ==
    /\ lastCall.op = "analyzeMessage"
    /\ totalMessagesProcessed = lastCall.before.total + 1

\* the n-grams the last analyzeMessage call tracked
LastTracked == TrackedNgrams(lastCall.text, whitelist, settings)

Times(tracked, key) ==
    Cardinality({ i \in DOMAIN tracked : tracked[i].ngram = key })

\* C1: each observation of an n-gram of n tokens adds 1 to the record's
\* count and 1.0 + 0.2*(n - ngramMin) + 0.5*(tokens outside the stop-word
\* set) to its score, starting from count 0 and score 0, and sets lastSeen
\* to the counter's value before the call's increment.
C1_ObservationUpdate ==
    LastAnalyzed =>
        \A key \in { LastTracked[i].ngram : i \in DOMAIN LastTracked } :
            LET k == Times(LastTracked, key)
                n == Len(key)
                uncommon == Cardinality({ j \in 1..n : key[j] \notin whitelist })
                old == RecordOf(lastCall.before.freq, key)
                new == RecordOf(ngramFrequencies, key)
            IN  /\ key \in Keys(ngramFrequencies)
                /\ new.count = old.count + k
                /\ new.score = old.score
                       + k * (10 + 2 * (n - settings.ngramMin) + 5 * uncommon)
                           * (ScoreUnit \div 10)
                /\ new.lastSeen = lastCall.before.total

\* a 4-gram seen before is observed twice in one message
C1_Witness ==
    /\ LastAnalyzed
    /\ \E i \in DOMAIN LastTracked :
          /\ LastTracked[i].n = 4
          /\ Times(LastTracked, LastTracked[i].ngram) = 2
          /\ LastTracked[i].ngram \in Keys(lastCall.before.freq)

\* the age of a record at a counter value exceeds the pruning cycle
Stale(r, total) == total - r.lastSeen > settings.pruningCycle

\* a record of the table that is r with its score multiplied by 0.9
DecayedIn(freq, r) ==
    \E i \in DOMAIN freq :
        /\ freq[i].phrase = r.phrase
        /\ freq[i].count = r.count
        /\ freq[i].lastSeen = r.lastSeen
        /\ r.score % 10 = 0
        /\ freq[i].score = 9 * (r.score \div 10)

\* C2: one run of pruneOldNgrams deletes the stale records below the
\* threshold, multiplies the score of the other stale records by 0.9 keeping
\* count and lastSeen, and leaves the records that are not stale unchanged.
C2_PruneEffect ==
    lastCall.op = "pruneOldNgrams" =>
        /\ Keys(ngramFrequencies) \subseteq Keys(lastCall.before.freq)
        /\ \A r \in Range(lastCall.before.freq) :
              IF Stale(r, totalMessagesProcessed)
              THEN IF r.score < settings.slopThreshold
                   THEN r.phrase \notin Keys(ngramFrequencies)
                   ELSE DecayedIn(ngramFrequencies, r)
              ELSE r \in Range(ngramFrequencies)

\* one direct run deletes one record, decays another and keeps a third
C2_Witness ==
    /\ lastCall.op = "pruneOldNgrams"
    /\ \E r \in Range(lastCall.before.freq) :
          Stale(r, totalMessagesProcessed) /\ r.score < settings.slopThreshold
    /\ \E r \in Range(lastCall.before.freq) :
          Stale(r, totalMessagesProcessed) /\ r.score >= settings.slopThreshold
    /\ \E r \in Range(lastCall.before.freq) :
          ~Stale(r, totalMessagesProcessed)

\* the n-grams of a log entry
LoggedKeys(entry) == { entry[i].ngram : i \in DOMAIN entry }

\* the score a log entry's observations of a key add up to
LoggedScore(entry, key) ==
    LET hits == { i \in DOMAIN entry : entry[i].ngram = key }
    IN  IF hits = {} THEN 0
        ELSE Cardinality(hits) * entry[CHOOSE i \in hits : TRUE].inc

\* C3: pruning runs within analyzeMessage exactly when the incremented
\* counter is a multiple of pruningCycle: a record the message did not
\* observe is deleted or decayed when the counter is such a multiple and
\* exceeds lastSeen + pruningCycle, and is otherwise untouched.  With
\* pruningCycle = 2 an n-gram observed in message 0 only is, after message 3,
\* absent if its score was below the threshold and else present with its
\* score multiplied by 0.9 once.
C3_PruningCadence ==
    /\ LastAnalyzed =>
          \A r \in Range(lastCall.before.freq) :
              r.phrase \notin LoggedKeys(LastTracked) =>
                  IF /\ totalMessagesProcessed % settings.pruningCycle = 0
                     /\ totalMessagesProcessed > r.lastSeen + settings.pruningCycle
                  THEN IF r.score < settings.slopThreshold
                       THEN r.phrase \notin Keys(ngramFrequencies)
                       ELSE DecayedIn(ngramFrequencies, r)
                  ELSE r \in Range(ngramFrequencies)
    /\ (settings.pruningCycle = 2 /\ totalMessagesProcessed = 4
            /\ Len(observed) = 4) =>
          \A key \in LoggedKeys(observed[1]) :
              (\A m \in 2..4 : key \notin LoggedKeys(observed[m])) =>
                  LET score0 == LoggedScore(observed[1], key)
                  IN  IF score0 < settings.slopThreshold
                      THEN key \notin Keys(ngramFrequencies)
                      ELSE /\ key \in Keys(ngramFrequencies)
                           /\ RecordOf(ngramFrequencies, key).score
                                 = 9 * (score0 \div 10)
                           /\ score0 % 10 = 0

\* with pruningCycle = 2, message 0 left one n-gram below and one at the
\* threshold, messages 1 to 3 held neither: the first is gone and the second
\* is kept
C3_Witness ==
    /\ settings.pruningCycle = 2
    /\ totalMessagesProcessed = 4
    /\ Len(observed) = 4
    /\ LastAnalyzed
    /\ \A m \in 2..4 : observed[m] = <<>>
    /\ \E key \in LoggedKeys(observed[1]) :
          /\ LoggedScore(observed[1], key) < settings.slopThreshold
          /\ key \notin Keys(ngramFrequencies)
    /\ \E key \in LoggedKeys(observed[1]) :
          /\ LoggedScore(observed[1], key) >= settings.slopThreshold
          /\ key \in Keys(ngramFrequencies)

\* the keys the last call added to the table
AddedKeys ==
    IF lastCall.op = "analyzeChatHistory" THEN Keys(ngramFrequencies)
    ELSE Keys(ngramFrequencies) \ Keys(lastCall.before.freq)

\* C4: no call adds to the table an n-gram whose tokens are all in the
\* stop-word set at the time of the call, whatever its size from ngramMin to
\* ngramMax.
C4_StopWordFilter ==
    \A key \in AddedKeys :
        /\ Len(key) \in settings.ngramMin..settings.ngramMax
        /\ \E j \in DOMAIN key : key[j] \notin whitelist

\* a message made of stop words only, some of them whitelisted after an
\* n-gram of theirs had been tracked, is analysed and adds nothing
C4_Witness ==
    /\ LastAnalyzed
    /\ whitelist # COMMON_WORDS
    /\ \E i \in DOMAIN lastCall.text : toLowerCase(lastCall.text[i]) \notin COMMON_WORDS
    /\ \A i \in DOMAIN lastCall.text :
          toLowerCase(lastCall.text[i]) \in whitelist \cup Terminators
    /\ Len(lastCall.text) >= 4
    /\ AddedKeys = {}
    /\ \E key \in Keys(ngramFrequencies) :
          \A j \in DOMAIN key : key[j] \in whitelist

\* a text that is not empty once its markup is stripped
HasContent(text) == \E i \in DOMAIN text : text[i] \notin Tags

\* C5 as stated: every analyzeMessage call advances the counter by one.
C5_Original ==
    lastCall.op = "analyzeMessage" =>
        totalMessagesProcessed = lastCall.before.total + 1

\* C5: an analyzeMessage call of an enabled watcher with a text that is not
\* empty once its markup is stripped advances the counter by exactly one,
\* also when the text yields no n-gram; any other call changes nothing.
C5_CounterAdvance ==
    lastCall.op = "analyzeMessage" =>
        IF enabled /\ HasContent(lastCall.text)
        THEN totalMessagesProcessed = lastCall.before.total + 1
        ELSE Watcher = lastCall.before

\* a text without any n-gram advances the counter and nothing else
C5_Witness ==
    /\ lastCall.op = "analyzeMessage"
    /\ enabled
    /\ HasContent(lastCall.text)
    /\ LastTracked = <<>>
    /\ totalMessagesProcessed = lastCall.before.total + 1
    /\ lastCall.before.freq # <<>>
    /\ ngramFrequencies = lastCall.before.freq

\* the last call ended with a run of pruneOldNgrams
PruneRan ==
    \/ lastCall.op = "pruneOldNgrams"
    \/ /\ LastAnalyzed
       /\ totalMessagesProcessed % settings.pruningCycle = 0
    \/ /\ lastCall.op = "analyzeChatHistory"
       /\ totalMessagesProcessed > 0
       /\ totalMessagesProcessed % settings.pruningCycle = 0

\* C6 as stated: after a run of pruning every record is recently seen or
\* has a score at or above the threshold.
C6_Original ==
    PruneRan =>
        \A r \in Range(ngramFrequencies) :
            \/ ~Stale(r, totalMessagesProcessed)
            \/ r.score >= settings.slopThreshold

\* C6: after a run of pruning every record is recently seen or has a score
\* at or above 0.9 times the threshold.
C6_PrunedTable ==
    PruneRan =>
        \A r \in Range(ngramFrequencies) :
            \/ ~Stale(r, totalMessagesProcessed)
            \/ /\ settings.slopThreshold % 10 = 0
               /\ r.score >= 9 * (settings.slopThreshold \div 10)

\* a run of pruning left a stale record that it decayed below the threshold
C6_Witness ==
    /\ PruneRan
    /\ \E r \in Range(ngramFrequencies) :
          /\ Stale(r, totalMessagesProcessed)
          /\ r.score < settings.slopThreshold
    /\ Len(ngramFrequencies) < Len(lastCall.before.freq)

\* the records of the table with a score of at least minScore
AtOrAbove(minScore) ==
    { r \in Range(ngramFrequencies) : r.score >= minScore }

Projection(r) == [phrase |-> r.phrase, score |-> r.score, count |-> r.count]

\* C7: getOverusedPhrases(minScore) returns exactly the records with a score
\* of at least minScore, each as its {phrase, score, count}, by non-increasing
\* score with equal scores in the table's insertion order, and changes
\* nothing in the watcher.
C7_OverusedPhrases ==
    (lastCall.op = "getOverusedPhrases" /\ lastCall.minScore.given) =>
        LET out == lastCall.phrases
        IN  /\ Range(out) = { Projection(r) : r \in AtOrAbove(lastCall.minScore.value) }
            /\ Len(out) = Cardinality(AtOrAbove(lastCall.minScore.value))
            /\ \A i, j \in DOMAIN out :
                  i < j =>
                      \/ out[i].score > out[j].score
                      \/ /\ out[i].score = out[j].score
                         /\ IndexOf(ngramFrequencies, out[i].phrase)
                               < IndexOf(ngramFrequencies, out[j].phrase)
            /\ Watcher = lastCall.before

\* the result holds a tie and a record that the sort moved ahead of records
\* inserted before it, and leaves out a record below minScore
C7_Witness ==
    /\ lastCall.op = "getOverusedPhrases"
    /\ lastCall.minScore.given
    /\ Len(lastCall.phrases) < Len(ngramFrequencies)
    /\ \E i, j \in DOMAIN lastCall.phrases :
          i < j /\ lastCall.phrases[i].score = lastCall.phrases[j].score
    /\ \E i, j \in DOMAIN lastCall.phrases :
          /\ i < j
          /\ IndexOf(ngramFrequencies, lastCall.phrases[i].phrase)
                > IndexOf(ngramFrequencies, lastCall.phrases[j].phrase)

\* the phrases of a result
PhrasesOf(out) == { out[i].phrase : i \in DOMAIN out }

\* the keys of the records at or above the configured threshold
OverThreshold ==
    { r.phrase : r \in AtOrAbove(settings.slopThreshold) }

\* C8 as stated: without an argument getOverusedPhrases, the top phrases of
\* getStats and the overusedPhrases of analyzeChatHistory report a record
\* exactly when its score is at or above settings.slopThreshold.
C8_ConfiguredThreshold ==
    /\ (lastCall.op = "getOverusedPhrases" /\ ~lastCall.minScore.given) =>
          PhrasesOf(lastCall.phrases) = OverThreshold
    /\ lastCall.op = "analyzeChatHistory" =>
          PhrasesOf(lastCall.phrases) = OverThreshold
    /\ (lastCall.op = "getStats"
            /\ Cardinality(OverThreshold) <= TopPhrasesLimit) =>
          PhrasesOf(lastCall.stats.topPhrases) = OverThreshold

\* C9 as stated: the overused count of getStats is the number of records at
\* or above the threshold, its tracked-phrase count is the table's size, and
\* getStats changes nothing.
C9_CandidateCount ==
    /\ Cardinality(slopCandidates) = Cardinality(OverThreshold)
    /\ lastCall.op = "getStats" =>
          /\ lastCall.stats.slopCandidates = Cardinality(OverThreshold)
          /\ lastCall.stats.totalPhrases = Len(ngramFrequencies)
          /\ Watcher = lastCall.before

Eligible(messages) ==
    SelectSeq(messages, LAMBDA msg : ~msg.is_user /\ msg.mes # <<>>)

C11_AnalysisWindow ==
    lastCall.op = "analyzeChatHistory" =>
        LET eligible == Eligible(lastCall.messages)
            n == Len(eligible)
            k == settings.messagesToAnalyze
            m == IF n < k THEN n ELSE k
            fresh == analyzeAll([freq |-> <<>>, cand |-> {}, total |-> 0],
                                lastCall.passed, enabled, whitelist, settings)
        IN  /\ lastCall.passed = [i \in 1..m |-> eligible[n - m + i]]
            /\ lastCall.analyzed = m
            /\ Len(lastCall.passed) <= k
            /\ Watcher = fresh
            /\ lastCall.stats = getStats(fresh.freq, fresh.cand, fresh.total)

\* C14: applyReplacements applies every stored rule that is not disabled and
\* whose pattern compiles, whatever its origin, once and in store order, each
\* on the text the rules before it produced; a disabled rule has no effect.
Compiles(rule) == RegExp(rule.findRegex).ok

C14_EveryEnabledRuleApplied ==
    (fixerCall.op = "applyReplacements" /\ fixerCall.text # <<>>
       /\ fixerCall.enabled) =>
        fixerCall.result \in
            applyRules({ fixerCall.text },
                       SelectSeq(fixerCall.rules,
                                 LAMBDA rule : ~rule.disabled /\ Compiles(rule)))

\* the capture groups of a match as the only arguments a reference can name
CaptureArgs(m) ==
    [i \in DOMAIN m.caps |->
        [kind |-> "capture", def |-> m.caps[i].def, val |-> m.caps[i].val,
         n |-> 0]]

\* an alternative of the list with its references taken from the captures of
\* the match: a reference to no group, or to a group that did not take part,
\* is the empty string
FromCaptures(option, m) == SubstituteReferences(trim(option), CaptureArgs(m))

\* the texts in which every match of the rule's pattern is replaced by one of
\* the listed alternatives, each match by any of them
RECURSIVE ListedFrom(_, _, _, _)
ListedFrom(text, pos, regex, options) ==
    IF pos > Len(text) THEN { <<>> }
    ELSE LET m == MatchAt(text, pos, regex)
         IN  IF m.ok /\ m.end > pos
             THEN { FromCaptures(options[k], m) \o r :
                      k \in DOMAIN options,
                      r \in ListedFrom(text, m.end, regex, options) }
             ELSE { <<text[pos]>> \o r :
                      r \in ListedFrom(text, pos + 1, regex, options) }

HasList(rule) == Compiles(rule) /\ optionsMatch(rule.replaceString).found

Alternatives(rule) == split(optionsMatch(rule.replaceString).list)

RECURSIVE ListedRules(_, _)
ListedRules(texts, rs) ==
    IF rs = <<>> THEN texts
    ELSE ListedRules(
             UNION { IF HasList(Head(rs))
                     THEN ListedFrom(t, 1, RegExp(Head(rs).findRegex),
                                     Alternatives(Head(rs)))
                     ELSE applyRule(t, Head(rs)) : t \in texts },
             Tail(rs))

\* C15: for a rule with an alternative list, every match of its pattern is
\* replaced by one of the rule's alternatives with its $n references taken
\* from that match's captures, any alternative for any match; no other
\* replacement text appears in any possible output.
C15_OnlyListedAlternatives ==
    (fixerCall.op = "applyReplacements" /\ fixerCall.text # <<>>
       /\ fixerCall.enabled) =>
        LET listed == ListedRules({ fixerCall.text },
                                  enabledRules(fixerCall.rules))
        IN  /\ fixerCall.result \in listed
            /\ listed \subseteq
                 applyReplacements(fixerCall.text, fixerCall.rules,
                                   fixerCall.enabled)

\* the positions at which processedText.replace finds its matches
RECURSIVE MatchPositions(_, _, _)
MatchPositions(text, pos, regex) ==
    IF pos > Len(text) THEN {}
    ELSE LET m == MatchAt(text, pos, regex)
         IN  IF m.ok /\ m.end > pos
             THEN { pos } \cup MatchPositions(text, m.end, regex)
             ELSE MatchPositions(text, pos + 1, regex)

\* the texts the i-th enabled rule of the last call was applied to
TextsBefore(i) ==
    applyRules({ fixerCall.text },
               SubSeq(enabledRules(fixerCall.rules), 1, i - 1))

\* C16: in a chosen alternative a reference $n with n greater than the number
\* of groups, or to a group that took no part in the match, is replaced by
\* the empty string: only captured groups of the match are spliced in.
C16_UnresolvedReferenceEmpty ==
    (fixerCall.op = "applyReplacements" /\ fixerCall.text # <<>>
       /\ fixerCall.enabled) =>
        LET rs == enabledRules(fixerCall.rules)
        IN  \A i \in DOMAIN rs :
                HasList(rs[i]) =>
                    \A t \in TextsBefore(i) :
                        \A pos \in MatchPositions(t, 1, RegExp(rs[i].findRegex)) :
                            LET m == MatchAt(t, pos, RegExp(rs[i].findRegex))
                            IN  Replacements(m, pos, t,
                                             RandomReplacement(Alternatives(rs[i])))
                                  = { FromCaptures(Alternatives(rs[i])[k], m) :
                                        k \in DOMAIN Alternatives(rs[i]) }

\* the rule store without the rules whose pattern does not compile
WithoutBroken(rs) == SelectSeq(rs, Compiles)

\* C17: a rule whose findRegex does not compile is skipped: the result of
\* applyReplacements is that of the remaining rules in their order, as if the
\* rule were not in the store.
C17_BrokenRuleSkipped ==
    fixerCall.op = "applyReplacements" =>
        /\ fixerCall.result \in
             applyReplacements(fixerCall.text, WithoutBroken(fixerCall.rules),
                               fixerCall.enabled)
        /\ applyReplacements(fixerCall.text, WithoutBroken(fixerCall.rules),
                             fixerCall.enabled)
             \subseteq applyReplacements(fixerCall.text, fixerCall.rules,
                                         fixerCall.enabled)

\* a rule that does not compile stood before a rule that changed the text
C17_Witness ==
    /\ fixerCall.op = "applyReplacements"
    /\ \E i \in DOMAIN fixerCall.rules :
          /\ ~Compiles(fixerCall.rules[i])
          /\ ~fixerCall.rules[i].disabled
          /\ fixerCall.rules[i].isStatic
          /\ i < Len(fixerCall.rules)
    /\ fixerCall.result # fixerCall.text

\* a replaceString that carries the marker and no well-formed list
Malformed(rule) ==
    /\ FindFrom(rule.replaceString, 1, RandomMarker) # 0
    /\ ~optionsMatch(rule.replaceString).found

\* the rules applied with the raw replaceString of a malformed rule put in
\* the place of each of its matches
RECURSIVE LiteralFallback(_, _)
LiteralFallback(texts, rs) ==
    IF rs = <<>> THEN texts
    ELSE LiteralFallback(
             UNION { IF Compiles(Head(rs)) /\ Malformed(Head(rs))
                     THEN ReplaceAll(t, RegExp(Head(rs).findRegex),
                                     LiteralReplacement(Head(rs).replaceString))
                     ELSE applyRule(t, Head(rs)) : t \in texts },
             Tail(rs))

\* C18: a rule whose replaceString carries '{{random:' but is no well-formed
\* alternative list falls back to literal substitution: each match of its
\* pattern is replaced by the raw replaceString.
C18_MalformedListLiteral ==
    (fixerCall.op = "applyReplacements" /\ fixerCall.text # <<>>
       /\ fixerCall.enabled) =>
        fixerCall.result \in
            LiteralFallback({ fixerCall.text }, enabledRules(fixerCall.rules))

\* the last loadRules got no rules: the file was unreachable or no valid JSON
LoadFailed == fixerCall.source \in {"unreachable", "invalid JSON"}

\* C19: after a loadRules that failed, the rule store is empty and the fixer
\* is a no-op: process(text) returns text unchanged, for every text.
C19_FailedLoadNoOp ==
    LoadFailed =>
        /\ rules = <<>>
        /\ fixerCall.op = "process" => fixerCall.result = fixerCall.text

\* C20: fixCapitalization is idempotent: applying it to its own result
\* returns that result.
C20_CapitalizationIdempotent ==
    fixerCall.op = "fixCapitalization" =>
        fixCapitalization(fixerCall.result) = fixerCall.result

\* C12: after the host has handled a chat-changed event the watcher holds
\* nothing of the previous conversation: its table is empty and its message
\* counter is zero.
C12_ChatChangedClearsWatcher ==
    hostCall.op = "CHAT_CHANGED" =>
        /\ ngramFrequencies = <<>>
        /\ slopCandidates = {}
        /\ totalMessagesProcessed = 0

\* C13: analyzeMessage is only called with the text of messages the user did
\* not write: processMessage returns before any observation when
\* message.is_user is set, and analyzeChatHistory skips the user's messages.
C13_OnlyOthersObserved ==
    /\ \A i \in DOMAIN lastCall.passed : ~lastCall.passed[i].is_user
    /\ (hostCall.op = "processMessage" /\ hostCall.message.is_user) =>
          /\ ~hostCall.observed
          /\ Watcher = hostCall.before

\* processMessage was called for a message of the user, the app being ready
\* and fast mode on, after a message of the other speaker had been observed
C13_Witness ==
    /\ hostCall.op = "processMessage"
    /\ hostCall.message.defined
    /\ hostCall.message.is_user
    /\ "slop_fixed" \notin hostCall.message.flags
    /\ isAppReady
    /\ fastModeEnabled
    /\ lastCall.op = "analyzeMessage"
    /\ Len(lastCall.passed) = 1

\* the angle-bracket tags <[^>]*> of a text from pos, in order
RECURSIVE TagsFrom(_, _)
TagsFrom(text, pos) ==
    LET open == FindFrom(text, pos, <<"<">>)
        close == IF open = 0 THEN 0 ELSE FindFrom(text, open + 1, <<">">>)
    IN  IF close = 0 THEN <<>>
        ELSE <<SubSeq(text, open, close)>> \o TagsFrom(text, close + 1)

\* C21: fixCapitalization changes only letter case: the result has the
\* length of the input, each of its characters is that of the input or the
\* upper case of a lower-case letter of the input, and the angle-bracket
\* tags of the input appear unchanged and in the same order in the result.
C21_OnlyLetterCase ==
    fixerCall.op = "fixCapitalization" =>
        /\ Len(fixerCall.result) = Len(fixerCall.text)
        /\ \A i \in DOMAIN fixerCall.text :
              \/ fixerCall.result[i] = fixerCall.text[i]
              \/ /\ IsLower(fixerCall.text[i])
                 /\ fixerCall.result[i] = upperChar(fixerCall.text[i])
        /\ TagsFrom(fixerCall.result, 1) = TagsFrom(fixerCall.text, 1)

\* the response type the protocol pairs with each request type
Paired ==
    [init |-> "ready", analyzeMessage |-> "messageAnalyzed",
     analyzeBatch |-> "batchComplete", getOverusedPhrases |-> "overusedPhrases",
     getStats |-> "stats", reset |-> "resetComplete",
     updateSettings |-> "settingsUpdated"]

\* C22: for every request of the seven types that the worker has handled, in
\* any order, it has posted exactly one message in reply: the response paired
\* with the request, or an error message instead.
C22_OneReplyPerRequest ==
    workerCall.request.type \in DOMAIN Paired =>
        /\ Len(workerCall.replies) = 1
        /\ workerCall.replies[1] \in {Paired[workerCall.request.type], "error"}

\* C23: if the external generation call failed during a
\* generateRulesFromPhrases call (it threw, returned an empty response or
\* returned output that does not parse), for one batch or more, the call has
\* persisted no rule: it added nothing to dynamicRules.
C23_FailedGenerationPersistsNothing ==
    (generatorCall.op = "generateRulesFromPhrases" /\ generatorCall.failed) =>
        generatorCall.added = 0

\* C27: if importRules ended in its error path (invalid JSON, a payload that
\* is no array of rules, an exception raised while an entry was examined), it
\* returned 0 and dynamicRules holds exactly the rules it held before.
C27_FailedImportChangesNothing ==
    (generatorCall.op = "importRules" /\ generatorCall.failed) =>
        /\ generatorCall.returned = 0
        /\ ~generatorCall.changed

\* C28: at most one rule generation runs at a time: a generateRulesFromPhrases
\* call made while another is suspended on the AI call returns 0 without
\* calling the AI and without changing dynamicRules, and isGenerating is set
\* exactly while a call is in progress: it is false again once the running
\* call has returned, on success and on every failure path.
C28_OneGenerationAtATime ==
    /\ Len(generating) <= 1
    /\ isGenerating = (generating # <<>>)
    /\ (generatorCall.op = "generateRulesFromPhrases" /\ generatorCall.busy) =>
          /\ generatorCall.returned = 0
          /\ generatorCall.aiCalls = 0
          /\ generatorCall.added = 0
          /\ ~generatorCall.changed

\* a call has returned at once because another one, which has saved a rule in
\* its first batch, is still suspended on the AI call of its second batch
C28_Witness ==
    /\ generatorCall.op = "generateRulesFromPhrases"
    /\ generatorCall.busy
    /\ Len(generating) = 1
    /\ generating[1].i > 0
    /\ generating[1].added > 0
    /\ isGenerating

\* the (findRegex, replaceString) pair of a rule
PairOf(rule) == <<rule.findRegex, rule.replaceString>>

\* the rules the last call appended to dynamicRules have pairs that no rule
\* before them in dynamicRules has
AddedAreNew ==
    LET rs == rulesOr(dynamicRules)
    IN  \A j \in (Len(rs) - generatorCall.added + 1)..Len(rs) :
            \A i \in 1..(j - 1) : PairOf(rs[i]) # PairOf(rs[j])

\* importing json into the store as it is adds nothing and returns 0
AddsNothing(json) ==
    LET r == importRulesEffect(dynamicRules, json)
    IN  /\ r.returned = 0
        /\ rulesOr(r.dynamicRules) = rulesOr(dynamicRules)

\* C29: importRules never adds a rule whose (findRegex, replaceString) pair
\* equals that of a rule already in dynamicRules or of a rule added earlier
\* in the same import, and it returns the number of rules it added; importing
\* the same JSON a second time adds nothing and returns 0, and so does
\* importing the output of exportRules into the store it came from.
C29_ImportAddsNoDuplicate ==
    /\ generatorCall.op = "importRules" =>
          /\ AddedAreNew
          /\ generatorCall.returned = generatorCall.added
          /\ AddsNothing(generatorCall.json)
    /\ AddsNothing(exportRules(dynamicRules))

\* C30: in every state between watcher calls, with the settings as they were
\* constructed, each tracked record has count >= 1 and lastSeen below the
\* message counter, every member of slopCandidates is a key of the table,
\* and every record whose score has never reached slopThreshold (a record
\* reaches it in the observation that puts its phrase into slopCandidates,
\* and the phrase stays there as long as the record does) has an age,
\* totalMessagesProcessed - lastSeen, strictly less than 2 * pruningCycle.
C30_TableInvariant ==
    /\ \A i \in DOMAIN ngramFrequencies :
          LET r == ngramFrequencies[i]
          IN  /\ r.count >= 1
              /\ r.lastSeen < totalMessagesProcessed
              /\ r.score >= settings.slopThreshold => r.phrase \in slopCandidates
              /\ r.phrase \notin slopCandidates =>
                    totalMessagesProcessed - r.lastSeen
                      < 2 * settings.pruningCycle
    /\ slopCandidates \subseteq Keys(ngramFrequencies)

\* a record that was never a candidate is as old as it can get, next to a
\* candidate whose score has decayed below the threshold
C30_Witness ==
    /\ \E i \in DOMAIN ngramFrequencies :
          /\ ngramFrequencies[i].phrase \notin slopCandidates
          /\ totalMessagesProcessed - ngramFrequencies[i].lastSeen
               = 2 * settings.pruningCycle - 1
    /\ \E i \in DOMAIN ngramFrequencies :
          /\ ngramFrequencies[i].phrase \in slopCandidates
          /\ ngramFrequencies[i].score < settings.slopThreshold

\* whether a record at score, last seen at lastSeen and never observed again,
\* is deleted before the counter passes its cap, the counter being total
\* after the next message
RECURSIVE DiesBy(_, _, _)
DiesBy(score, lastSeen, total) ==
    IF total > MaxMessages THEN FALSE
    ELSE IF total % settings.pruningCycle = 0
            /\ total - lastSeen > settings.pruningCycle
    THEN IF score < settings.slopThreshold THEN TRUE
         ELSE DiesBy(9 * (score \div 10), lastSeen, total + 1)
    ELSE DiesBy(score, lastSeen, total + 1)


\* the phrases of the sample texts whose records reach the threshold
HotKeys == { <<"the", "heart", "of">>, <<"heart", "of", "the">>,
             <<"the", "heart", "of", "the">> }

\* the records the table held before the last analyzeMessage call with a
\* score at or above the threshold, which the call did not observe
HotUnobserved ==
    { r \in Range(lastCall.before.freq) :
        /\ r.score >= settings.slopThreshold
        /\ \A i \in DOMAIN LastTracked : LastTracked[i].ngram # r.phrase }

\* the record of key is at or above the threshold, was last seen at lastSeen,
\* and is deleted within the cap of the counter if it is never observed again
Doomed(key, lastSeen) ==
    LET r == RecordOf(ngramFrequencies, key)
    IN  /\ key \in Keys(ngramFrequencies)
        /\ r.lastSeen = lastSeen
        /\ r.score >= settings.slopThreshold
        /\ DiesBy(r.score, lastSeen, totalMessagesProcessed + 1)

\* the record of key is deleted, or has been observed since lastSeen
GoneOrObserved(key, lastSeen) ==
    \/ key \notin Keys(ngramFrequencies)
    \/ RecordOf(ngramFrequencies, key).lastSeen # lastSeen

EventuallyDeleted ==
    \A key \in HotKeys : \A lastSeen \in 0..(MaxMessages - 1) :
        Doomed(key, lastSeen) ~> GoneOrObserved(key, lastSeen)

\* C26 as stated: a record at or above the threshold that is not observed
\* again is not deleted at a prune point where its score is still at or above
\* the threshold, its score is multiplied by 0.9 at each prune point, and it
\* is eventually deleted.
C26_Original ==
    /\ [](LastAnalyzed =>
            \A r \in HotUnobserved :
                /\ r.phrase \in Keys(ngramFrequencies)
                /\ RecordOf(ngramFrequencies, r.phrase).score
                     = IF PruneRan THEN 9 * (r.score \div 10) ELSE r.score)
    /\ EventuallyDeleted

\* C26: with a positive threshold, a record at or above the threshold that is
\* not observed again while non-empty messages keep being observed is not
\* deleted at a prune point where its score is still at or above the
\* threshold, its score is multiplied by 0.9 at each prune point at which it
\* is stale (its age exceeds pruningCycle) and is left as it is otherwise,
\* and it is eventually deleted.
C26_DecayThenDelete ==
    /\ [](LastAnalyzed =>
            \A r \in HotUnobserved :
                /\ r.phrase \in Keys(ngramFrequencies)
                /\ RecordOf(ngramFrequencies, r.phrase).score
                     = IF PruneRan /\ Stale(r, totalMessagesProcessed)
                       THEN 9 * (r.score \div 10) ELSE r.score)
    /\ EventuallyDeleted

\* a record that had been a candidate, decayed below the threshold since, was
\* deleted by the pruning of the last call
C26_Witness ==
    /\ LastAnalyzed
    /\ PruneRan
    /\ \E r \in Range(lastCall.before.freq) :
          /\ r.phrase \in lastCall.before.cand
          /\ r.score < settings.slopThreshold
          /\ r.phrase \notin Keys(ngramFrequencies)

\* the events of the host at which a suspended processMessage call resumes
Resumptions ==
    {"aiRewrite resolved", "showDiffPopup resolved",
     "saveChatConditional resolved"}

\* the last event of the host was a processMessage call that got past its
\* early returns with fast mode on
LastObserving == hostCall.op = "processMessage" /\ hostCall.observed

\* the watcher of the extension has observed the text of the call that
\* started last, whole: from the state it had when the call started, the
\* n-grams of the text are tracked, the counter is one more and the pruning
\* that was due has run
HostInOrder ==
    /\ LastObserving =>
          /\ lastCall.op = "analyzeMessage"
          /\ lastCall.before = hostCall.before
          /\ lastCall.text \in
               { Lex(t) : t \in process(hostCall.message.mes, rules,
                                        fixerEnabled) }
          /\ totalMessagesProcessed = hostCall.before.total + 1
          /\ observed # <<>>
          /\ observed[Len(observed)]
               = LogEntry(lastCall.text, whitelist, settings)
          /\ Watcher = analyzeMessageEffect(hostCall.before, lastCall.text,
                                            enabled, whitelist, settings)
    /\ hostCall.op \in Resumptions => Watcher = hostCall.before

\* the worker has handled the requests that arrived first, the last of them
\* to its end: an analyzeMessage request handled by a worker that has been
\* initialised is observed whole
WorkerInOrder ==
    /\ handled <= Len(requests)
    /\ handled > 0 =>
          /\ workerCall.request = requests[handled]
          /\ (/\ workerCall.request.type = "analyzeMessage"
              /\ workerCall.request.hasData
              /\ workerCall.replies # <<>>) =>
                /\ lastCall.op = "analyzeMessage"
                /\ lastCall.text = workerCall.request.text
                /\ Watcher = analyzeMessageEffect(lastCall.before,
                                                  lastCall.text, enabled,
                                                  whitelist, settings)

\* C24: the watcher observes the texts in the order in which the
\* processMessage calls started, also when the calls overlap, an earlier one
\* being suspended on the AI rewrite, the diff popup or the chat save: each
\* call that gets past its early returns is observed whole, counter and
\* pruning included, before it suspends, and a call that resumes leaves the
\* watcher alone; the worker handles its requests in the order of their
\* arrival, each to its end.
C24_ObservedInOrder ==
    /\ HostInOrder
    /\ WorkerInOrder

\* a processMessage call has just been observed while calls for the other
\* message are suspended on the AI rewrite, on the diff popup and on the chat
\* save
C24_Witness ==
    /\ LastObserving
    /\ \E s \in suspended : s.messageId # hostCall.messageId /\ s.at = "aiRewrite"
    /\ \E s \in suspended : s.messageId # hostCall.messageId /\ s.at = "showDiffPopup"
    /\ \E s \in saving : s.messageId # hostCall.messageId
    /\ totalMessagesProcessed = MaxMessages

\* the watcher of the extension had observed the text of the message before
\* the last processMessage call: an earlier call has processed the message
\* and left it with this text
ObservedBefore ==
    \E i \in 1..(Len(observed) - (IF hostCall.observed THEN 1 ELSE 0)) :
        observed[i] = LogEntry(Lex(hostCall.message.mes), whitelist, settings)

\* no processMessage call for the message of the last call is suspended
NonePending ==
    \A s \in saving \cup suspended : s.messageId # hostCall.messageId

\* C25: a processMessage call for a message that an earlier call has
\* processed returns without running the Static Fixer, without another
\* observation of the message and without changing its text, whether or not
\* the earlier call modified the text.
C25_ProcessedOnce ==
    (/\ hostCall.op = "processMessage"
     /\ hostCall.message.defined
     /\ ObservedBefore
     /\ NonePending) =>
        /\ ~hostCall.observed
        /\ Watcher = hostCall.before
        /\ fixerCall.op # "process"
        /\ MessageAt(hostCall.messageId).mes = hostCall.message.mes

====
